---- MODULE Spec2Model ----
(***************************************************************************)
(* A model of FractalRenderer (src/src/renderer.rs): the constructor new,  *)
(* render with its first pass and its glitch repair loop, and the keyframe *)
(* loop render_sequence.                                                   *)
(*                                                                         *)
(* The renderer's collaborators (SeriesApproximation, the reference orbit, *)
(* Perturbation, DataExport, FloatExtended) are not part of renderer.rs;  *)
(* they are modelled from their contracts in the specification (sections   *)
(* 3 and 4.1 - 4.6).                                                       *)
(*                                                                         *)
(* Numbers.  The f64 arithmetic of the renderer is kept bit for bit: a     *)
(* double has its sign and its full 53 bit significand, and + - * / and    *)
(* the conversion from usize round to nearest, ties to even.  delta_pixel, *)
(* delta_top_left and the element of a pixel are the doubles the program   *)
(* computes (infinities and NaN for W = 0 or H = 0 included).              *)
(* In the extended domain (ComplexExtended is not part of renderer.rs) a   *)
(* delta is a fixed point number in units of                               *)
(* 1 / (2 * zoom.mantissa * image_height^2) with a sticky last bit, which  *)
(* keeps the sign, the zeros and the order of the doubles; a complex       *)
(* number is a pair <<re, im>>.                                            *)
(* A usize is kept in four 16 bit limbs (a 64 bit target).                 *)
(*                                                                         *)
(* Specifications.  Spec follows one render, with Perturbation::iterate as *)
(* 4.5 describes it.  FairSpec follows render around an iterate known by   *)
(* its signature only, which may flag any pixel it advances, and lets the  *)
(* program keep running.  SpecTwoRuns runs render twice on the same        *)
(* settings, with the same results of the numeric routines, each run       *)
(* under every order of its workers and every draw of its RNG.  SpecNew    *)
(* follows the constructor and SpecSequence the keyframe loop.             *)
(***************************************************************************)
EXTENDS Integers, Sequences, FiniteSets, TLC

\* ---------------------------------------------------------------- bounds
\* The image holds at most MaxPixels pixels (image_width * image_height).
MaxPixels == 2
\* The configured "iterations" setting ranges over 1..MaxIter.
MaxIter == 2
\* The constructor alone is explored on sizes up to MaxScale * SizeStep.
MaxScale == 8
\* Termination, and the comparison of two runs, are explored on settings whose
\* pixel count times "iterations" (the work of one pass) is at most LiveWork.
LiveWork == 2
\* The keyframe sequence is started from mantissas and scale factors that are
\* multiples of 2^-InputBits.
InputBits == 2
\* The keyframe sequence starts from zooms with exponent up to MaxZoomExponent.
MaxZoomExponent == 1

\* passes and data_export.exports count calls; the program keeps no such counters.
\* They are exact up to CountCap and stay there: a render whose passes all make
\* progress runs at most MaxPixels + 1 of them.
CountCap == MaxPixels + 2
\* derivative_current is an f64 pair, which stops growing at infinity; it is exact
\* up to DerivativeMax in each part and stays there.  A render whose passes all
\* make progress stays below it.
DerivativeMax == 2 ^ (MaxPixels + 3)

VARIABLES
    pc,                    \* position in new / render
    image_width,           \* FractalRenderer.image_width
    image_height,          \* FractalRenderer.image_height
    maximum_iteration,     \* FractalRenderer.maximum_iteration
    approximation_order,   \* FractalRenderer.approximation_order
    series_approximation,  \* render's local series_approximation
    reference,             \* render's local reference (first pass)
    r,                     \* render's local r (repair pass reference)
    pixel_data,            \* render's local Vec<PixelData>
    packed,                \* pixels built so far by the parallel map (before collect)
    pending,               \* work items of the running parallel phase not yet done
    delta_c,               \* the clone of the chosen glitched pixel (<<>> before the choice)
    reference_wrt_sa,      \* offset of the chosen pixel
    delta_z,               \* series_approximation.evaluate(reference_wrt_sa)
    iterate_reference,     \* the reference argument of the running / last Perturbation::iterate
    iterate_cap,           \* its reference_current_iteration argument
    data_export,           \* FractalRenderer.data_export: the image and what export was given
    saved,                 \* data_export.save() has been called
    passes,                \* calls of Perturbation::iterate made by this render
    zoom,                  \* FractalRenderer.zoom
    scale_factor,          \* render_sequence's argument
    count,                 \* render_sequence's local count
    renders,               \* calls of render made by render_sequence
    run,                   \* 1, or 2 when render is run again to compare its output
    first,                 \* what the first of two runs chose and exported
    choices,               \* the indices the RNG has drawn in this run, in order
    reordered,             \* a worker of iterate has finished before one of an earlier pixel, this run
    results                \* calls of the numeric routines made so far, with their results

vars == <<pc, image_width, image_height, maximum_iteration, approximation_order,
          series_approximation, reference, r, pixel_data, packed, pending,
          delta_c, reference_wrt_sa, delta_z, iterate_reference, iterate_cap,
          data_export, saved, passes, zoom, scale_factor, count, renders,
          run, first, choices, reordered, results>>

\* what render_sequence owns or changes, and render leaves alone
sequence_vars == <<zoom, scale_factor, count, renders>>

\* what is recorded of a run to compare a second run with it; a single render
\* leaves it alone
replay_vars == <<run, first, choices, reordered, results>>

\* ------------------------------------------------------- complex numbers
Zero == <<0, 0>>
One == <<1, 0>>
CAdd(a, b) == <<a[1] + b[1], a[2] + b[2]>>
CSub(a, b) == <<a[1] - b[1], a[2] - b[2]>>
CMul(a, b) == <<a[1] * b[1] - a[2] * b[2], a[1] * b[2] + a[2] * b[1]>>
CScale(k, a) == <<k * a[1], k * a[2]>>

\* ------------------------------------------------------------- doubles
\* the fraction bits of an f64
FractionBits == 52

\* A significand is an integer below 2^(FractionBits + 2), kept as <<hi, lo>>
\* with value hi * LimbBase + lo and lo < LimbBase.
LimbBase == 2 ^ (FractionBits \div 2)

Carry(hi, lo) == <<hi + lo \div LimbBase, lo % LimbBase>>
Twice(a) == Carry(2 * a[1], 2 * a[2])
Successor(a) == Carry(a[1], a[2] + 1)
Below(a, b) == a[1] < b[1] \/ (a[1] = b[1] /\ a[2] < b[2])
\* a - b for b <= a
Minus(a, b) ==
    IF a[2] >= b[2] THEN <<a[1] - b[1], a[2] - b[2]>>
    ELSE <<a[1] - b[1] - 1, a[2] + LimbBase - b[2]>>

\* the significands of 1.0 and of 2.0
SigOne == <<LimbBase, 0>>
SigTwo == <<2 * LimbBase, 0>>

\* A double is zero, an infinity, NaN, or a normal value
\* sign * (sig / 2^FractionBits) * 2^exp with sig in [SigOne, SigTwo); zeros
\* and infinities carry their sign.  Subnormal results and exponent overflow do
\* not arise from the values the renderer computes here.
Signed(sign, sig, e) == [class |-> "finite", sign |-> sign, sig |-> sig, exp |-> e]
Double(sig, e) == Signed(1, sig, e)
SignedZero(sign) == [class |-> "zero", sign |-> sign, sig |-> <<0, 0>>, exp |-> 0]
SignedInfinity(sign) == [class |-> "inf", sign |-> sign, sig |-> <<0, 0>>, exp |-> 0]
DoubleZero == SignedZero(1)
DoubleInfinity == SignedInfinity(1)
NaN == [class |-> "nan", sign |-> 1, sig |-> <<0, 0>>, exp |-> 0]

\* one step of long division by d: the next bit of the quotient s.q, and what
\* remains of the dividend (s.rem < d)
QuotientBit(s, d) ==
    LET t == Twice(s.rem)
    IN  IF Below(t, d) THEN [q |-> Twice(s.q), rem |-> t]
        ELSE [q |-> Successor(Twice(s.q)), rem |-> Minus(t, d)]

\* long division by d, until the quotient has FractionBits + 1 bits (each
\* step's result is bound before the next step is taken)
RECURSIVE QuotientBits(_, _)
QuotientBits(s, d) ==
    IF ~Below(s.q, SigOne) THEN s
    ELSE CHOOSE end \in {QuotientBits(next, d) : next \in {QuotientBit(s, d)}} : TRUE

\* the quotient q with remainder rem of a division by d, rounded to nearest,
\* ties to even
RoundHalfEven(q, rem, d) ==
    LET t == Twice(rem)
    IN  IF Below(d, t) \/ (t = d /\ q[2] % 2 = 1) THEN Successor(q) ELSE q

\* the double with exponent e whose significand is the quotient s.q rounded
RoundedQuotient(sign, s, d, e) ==
    LET sig == RoundHalfEven(s.q, s.rem, d)
    IN  IF sig = SigTwo THEN Signed(sign, SigOne, e + 1) ELSE Signed(sign, sig, e)

\* x / y for normal x and y: the exact quotient rounded to FractionBits + 1
\* significant bits
DivideNormal(x, y) ==
    LET low == Below(x.sig, y.sig)
        n == IF low THEN Twice(x.sig) ELSE x.sig
        e == x.exp - y.exp - (IF low THEN 1 ELSE 0)
    IN  CHOOSE quotient \in
            {RoundedQuotient(x.sign * y.sign, s, y.sig, e) :
                 s \in {QuotientBits([q |-> <<0, 1>>, rem |-> Minus(n, y.sig)], y.sig)}} :
            TRUE

\* x / y in f64 arithmetic (the operands are evaluated first)
DivideValues(x, y) ==
    IF x.class = "nan" \/ y.class = "nan" \/ (x.class = y.class /\ x.class # "finite")
    THEN NaN
    ELSE IF x.class = "inf" \/ y.class = "zero" THEN SignedInfinity(x.sign * y.sign)
    ELSE IF x.class = "zero" \/ y.class = "inf" THEN SignedZero(x.sign * y.sign)
    ELSE DivideNormal(x, y)
Divide(left, right) ==
    CHOOSE quotient \in {DivideValues(x, y) : x \in {left}, y \in {right}} : TRUE

\* ----------------------------------------------------- wide integers
\* The exact sums and products of significands are integers of up to
\* WideLimbs * WideBits bits, kept as tuples of WideLimbs limbs below WideBase,
\* least significant first.
WideBits == 13
WideLimbs == 9
WideBase == 2 ^ WideBits
WideZero == <<0, 0, 0, 0, 0, 0, 0, 0, 0>>
WideOne == <<1, 0, 0, 0, 0, 0, 0, 0, 0>>

Limb(a, k) == IF k \in 1..WideLimbs THEN a[k] ELSE 0

\* the limbs of the number with digits c (any integers), carries propagated
RECURSIVE PropagateFrom(_, _)
PropagateFrom(c, s) ==
    IF Len(s.out) = WideLimbs THEN s.out
    ELSE CHOOSE end \in
             {PropagateFrom(c, [out |-> Append(s.out, t % WideBase),
                                carry |-> t \div WideBase]) :
                  t \in {c[Len(s.out) + 1] + s.carry}} : TRUE
Propagate(c) == PropagateFrom(c, [out |-> <<>>, carry |-> 0])

\* Every operation takes the value of each operand once.
WideAdd(left, right) ==
    CHOOSE sum \in
        {Propagate([k \in 1..WideLimbs |-> a[k] + b[k]]) :
             a \in {left}, b \in {right}} : TRUE
\* left - right for right <= left
WideSub(left, right) ==
    CHOOSE difference \in
        {Propagate([k \in 1..WideLimbs |-> a[k] - b[k]]) :
             a \in {left}, b \in {right}} : TRUE
WideLess(a, b) ==
    \E k \in 1..WideLimbs :
        a[k] < b[k] /\ \A l \in (k + 1)..WideLimbs : a[l] = b[l]
\* left * right, for a product below WideBase^WideLimbs
WideMul(left, right) ==
    CHOOSE product \in
        {Propagate([k \in 1..WideLimbs |->
                        a[1] * Limb(b, k) + a[2] * Limb(b, k - 1) + a[3] * Limb(b, k - 2)
                        + a[4] * Limb(b, k - 3) + a[5] * Limb(b, k - 4)
                        + a[6] * Limb(b, k - 5) + a[7] * Limb(b, k - 6)
                        + a[8] * Limb(b, k - 7) + a[9] * Limb(b, k - 8)]) :
             a \in {left}, b \in {right}} : TRUE
\* wide * 2^n and wide \div 2^n
ShiftLeft(wide, n) ==
    CHOOSE shifted \in
        {Propagate([k \in 1..WideLimbs |->
                        Limb(a, k - (n \div WideBits)) * (2 ^ (n % WideBits))]) :
             a \in {wide}} : TRUE
ShiftRight(wide, n) ==
    CHOOSE shifted \in
        {Propagate([k \in 1..WideLimbs |->
                        (Limb(a, k + (n \div WideBits)) \div (2 ^ (n % WideBits)))
                        + (Limb(a, k + (n \div WideBits) + 1) % (2 ^ (n % WideBits)))
                              * (2 ^ (WideBits - (n % WideBits)))]) :
             a \in {wide}} : TRUE
\* bit p of a (bit 0 is the lowest), and whether a bit below p is set
BitAt(a, p) == (Limb(a, (p \div WideBits) + 1) \div (2 ^ (p % WideBits))) % 2
AnyBitBelow(a, p) ==
    \E k \in 1..WideLimbs : \E t \in 0..(WideBits - 1) :
        WideBits * (k - 1) + t < p /\ BitAt(a, WideBits * (k - 1) + t) = 1
\* the number of bits of a # 0
BitLength(a) ==
    LET top == CHOOSE k \in 1..WideLimbs :
                   a[k] # 0 /\ \A l \in (k + 1)..WideLimbs : a[l] = 0
        bits == CHOOSE b \in 1..WideBits : 2 ^ (b - 1) <= a[top] /\ a[top] < 2 ^ b
    IN  WideBits * (top - 1) + bits

\* a small integer, a significand, and back
WideOf(n) ==
    <<n % WideBase, (n \div WideBase) % WideBase, n \div (WideBase * WideBase),
      0, 0, 0, 0, 0, 0>>
WideOfSig(sig) ==
    <<sig[2] % WideBase, sig[2] \div WideBase,
      sig[1] % WideBase, (sig[1] \div WideBase) % WideBase, sig[1] \div LimbBase,
      0, 0, 0, 0>>
SigOfWide(a) == <<a[3] + a[4] * WideBase + a[5] * LimbBase, a[1] + a[2] * WideBase>>
IntOfWide(a) == a[1] + a[2] * WideBase + a[3] * WideBase * WideBase

\* the double nearest to sign * a * 2^e for a wide integer a # 0 of len
\* bits, ties to even
RoundWideOf(sign, a, e, len) ==
    IF len <= FractionBits + 1
    THEN Signed(sign, SigOfWide(ShiftLeft(a, FractionBits + 1 - len)), e + len - 1)
    ELSE LET over == len - FractionBits - 1
             up == BitAt(a, over - 1) = 1
                       /\ (AnyBitBelow(a, over - 1) \/ BitAt(a, over) = 1)
         IN  CHOOSE rounded \in
                 {IF sig = SigTwo THEN Signed(sign, SigOne, e + len)
                  ELSE Signed(sign, sig, e + len - 1) :
                      sig \in {SigOfWide(IF up THEN WideAdd(ShiftRight(a, over), WideOne)
                                         ELSE ShiftRight(a, over))}} : TRUE
RoundWide(sign, wide, e) ==
    CHOOSE rounded \in
        {RoundWideOf(sign, a, e, BitLength(a)) : a \in {wide}} : TRUE

\* n as f64, for a usize n below 2^31
FromUsize(n) == IF n = 0 THEN DoubleZero ELSE RoundWide(1, WideOf(n), 0)

Negate(x) == [x EXCEPT !.sign = 0 - x.sign]

\* x * y in f64 arithmetic
MultiplyValues(x, y) ==
    IF x.class = "nan" \/ y.class = "nan"
           \/ (x.class = "inf" /\ y.class = "zero") \/ (x.class = "zero" /\ y.class = "inf")
    THEN NaN
    ELSE IF x.class = "inf" \/ y.class = "inf" THEN SignedInfinity(x.sign * y.sign)
    ELSE IF x.class = "zero" \/ y.class = "zero" THEN SignedZero(x.sign * y.sign)
    ELSE RoundWide(x.sign * y.sign, WideMul(WideOfSig(x.sig), WideOfSig(y.sig)),
                   x.exp + y.exp - 2 * FractionBits)
Multiply(left, right) ==
    CHOOSE product \in {MultiplyValues(x, y) : x \in {left}, y \in {right}} : TRUE

\* x + y for normal x and y with x.exp >= y.exp: the exact sum, rounded.  A y
\* more than FractionBits + 8 binary places below x is below a quarter of the
\* last place of x and leaves it as it is.
AddAligned(x, y, a, b) ==
    IF x.sign = y.sign THEN RoundWide(x.sign, WideAdd(a, b), y.exp - FractionBits)
    ELSE IF a = b THEN DoubleZero
    ELSE IF WideLess(a, b) THEN RoundWide(y.sign, WideSub(b, a), y.exp - FractionBits)
    ELSE RoundWide(x.sign, WideSub(a, b), y.exp - FractionBits)
AddNormal(x, y) ==
    IF x.exp - y.exp > FractionBits + 8 THEN x
    ELSE CHOOSE sum \in
             {AddAligned(x, y, a, b) :
                  a \in {ShiftLeft(WideOfSig(x.sig), x.exp - y.exp)},
                  b \in {WideOfSig(y.sig)}} : TRUE

\* x + y in f64 arithmetic
AddValues(x, y) ==
    IF x.class = "nan" \/ y.class = "nan"
           \/ (x.class = "inf" /\ y.class = "inf" /\ x.sign # y.sign)
    THEN NaN
    ELSE IF x.class = "inf" THEN x
    ELSE IF y.class = "inf" THEN y
    ELSE IF x.class = "zero" /\ y.class = "zero"
         THEN (IF x.sign = y.sign THEN x ELSE DoubleZero)
    ELSE IF x.class = "zero" THEN y
    ELSE IF y.class = "zero" THEN x
    ELSE IF x.exp >= y.exp THEN AddNormal(x, y)
    ELSE AddNormal(y, x)
Add(left, right) ==
    CHOOSE sum \in {AddValues(x, y) : x \in {left}, y \in {right}} : TRUE

\* x - y in f64 arithmetic
Subtract(x, y) == Add(x, Negate(y))

\* self.zoom.mantissa /= scale_factor
DivideMantissa(m, k) == Divide(m, k)

\* ------------------------------------------------------- FloatExtended
\* A FloatExtended is [mantissa, exponent] with value mantissa * 2^exponent;
\* canonical form has mantissa = 0 or mantissa in [1, 2).
ZoomZero == [mantissa |-> DoubleZero, exponent |-> 0]
ZoomOne == [mantissa |-> Double(SigOne, 0), exponent |-> 0]

\* to_float() against 1.0: 1 above, 0 equal, -1 below
CompareToOne(z) ==
    LET e == z.exponent + z.mantissa.exp
    IN  IF z.mantissa.class = "zero" \/ e < 0 THEN -1
        ELSE IF e > 0 \/ Below(SigOne, z.mantissa.sig) THEN 1
        ELSE 0

\* reduce(): back to canonical form
Reduce(z) ==
    IF z.mantissa.class = "zero" THEN ZoomZero
    ELSE [mantissa |-> Double(z.mantissa.sig, 0),
          exponent |-> z.exponent + z.mantissa.exp]

\* ------------------------------------------------------ program constants
\* glitch_tolerance = 0.01 = 1 / GlitchToleranceInv
GlitchToleranceInv == 100
\* the literal 0.01 of the loop condition = 1 / LoopFactorInv
LoopFactorInv == 100
\* bounds of the automatic approximation order
MinOrder == 3
MaxOrder == 64
\* the largest value of render_sequence's count (an i32)
CountMax == 2147483647

\* Distinct sizes the constructor is explored on, one step apart.
SizeStep == 700

\* --------------------------------------------------------------- new()
\* A usize is <<u1, u2, u3, u4>>, most significant limb first, with value
\* ((u1 * 2^16 + u2) * 2^16 + u3) * 2^16 + u4.
UsizeLimb == 2 ^ 16
Usize(n) == <<0, 0, n \div UsizeLimb, n % UsizeLimb>>
\* usize::MAX
UsizeMax == <<UsizeLimb - 1, UsizeLimb - 1, UsizeLimb - 1, UsizeLimb - 1>>
\* a usize below 2^31 as an integer
UsizeToInt(u) == u[3] * UsizeLimb + u[4]
UsizeLess(a, b) ==
    \E k \in 1..4 : a[k] < b[k] /\ \A l \in 1..(k - 1) : a[l] = b[l]

\* AutoThresholds[k] is the least n = image_width * image_height for which
\*   ((n as f64).log(1e6).powf(6.619) * 16.0f64) as usize >= k,
\* evaluated in IEEE double arithmetic (the expression is monotone in n).
\* The table has every threshold below 2^31.
AutoThresholds ==
    << 8845, 24122, 45631, 73489, 107913, 149155, 197488, 253196,
       316570, 387905, 467501, 555658, 652681, 758873, 874544, 1000000,
       1135554, 1281516, 1438199, 1605920, 1784994, 1975739, 2178475, 2393523,
       2621206, 2861849, 3115778, 3383321, 3664807, 3960568, 4270937, 4596249,
       4936840, 5293050, 5665218, 6053688, 6458802, 6880908, 7320352, 7777486,
       8252660, 8746229, 9258548, 9789975, 10340869, 10911593, 11502509, 12113983,
       12746384, 13400080, 14075444, 14772849, 15492671, 16235288, 17001080, 17790429,
       18603718, 19441336, 20303669, 21191108, 22104045, 23042876, 24007997, 24999808,
       26018708, 27065102, 28139394, 29241993, 30373308, 31533750, 32723735, 33943678,
       35193997, 36475113, 37787450, 39131431, 40507485, 41916040, 43357529, 44832384,
       46341043, 47883944, 49461526, 51074234, 52722511, 54406805, 56127567, 57885246,
       59680299, 61513180, 63384349, 65294266, 67243395, 69232201, 71261152, 73330717,
       75441370, 77593584, 79787836, 82024607, 84304377, 86627630, 88994853, 91406533,
       93863163, 96365234, 98913243, 101507687, 104149066, 106837883, 109574644, 112359854,
       115194024, 118077666, 121011294, 123995425, 127030578, 130117274, 133256037, 136447394,
       139691872, 142990004, 146342322, 149749363, 153211664, 156729766, 160304213, 163935549,
       167624323, 171371085, 175176387, 179040786, 182964838, 186949103, 190994145, 195100527,
       199268818, 203499587, 207793406, 212150851, 216572499, 221058929, 225610723, 230228466,
       234912746, 239664151, 244483275, 249370711, 254327057, 259352912, 264448879, 269615562,
       274853568, 280163506, 285545990, 291001633, 296531053, 302134870, 307813706, 313568185,
       319398935, 325306586, 331291771, 337355123, 343497282, 349718887, 356020580, 362403007,
       368866816, 375412656, 382041182, 388753048, 395548913, 402429437, 409395284, 416447119,
       423585611, 430811432, 438125254, 445527754, 453019612, 460601508, 468274126, 476038155,
       483894282, 491843201, 499885605, 508022192, 516253663, 524580719, 533004066, 541524412,
       550142468, 558858947, 567674564, 576590039, 585606092, 594723448, 603942833, 613264976,
       622690610, 632220469, 641855291, 651595816, 661442786, 671396948, 681459048, 691629839,
       701910074, 712300509, 722801904, 733415020, 744140621, 754979476, 765932354, 777000029,
       788183274, 799482870, 810899597, 822434238, 834087581, 845860415, 857753531, 869767726,
       881903796, 894162542, 906544768, 919051278, 931682884, 944440394, 957324626, 970336395,
       983476521, 996745829, 1010145142, 1023675291, 1037337106, 1051131421, 1065059073, 1079120903,
       1093317753, 1107650469, 1122119899, 1136726894, 1151472308, 1166356999, 1181381826, 1196547651,
       1211855342, 1227305765, 1242899793, 1258638299, 1274522161, 1290552259, 1306729475, 1323054696,
       1339528810, 1356152708, 1372927286, 1389853441, 1406932072, 1424164084, 1441550383, 1459091877,
       1476789479, 1494644105, 1512656670, 1530828098, 1549159311, 1567651237, 1586304805, 1605120948,
       1624100601, 1643244704, 1662554198, 1682030027, 1701673140, 1721484486, 1741465020, 1761615698,
       1781937480, 1802431328, 1823098207, 1843939087, 1864954939, 1886146738, 1907515461, 1929062089,
       1950787605, 1972692997, 1994779255, 2017047370, 2039498339, 2062133161, 2084952838, 2107958375,
       2131150780 >>

\* let auto = (((image_width * image_height) as f64).log(1e6).powf(6.619) * 16.0f64) as usize;
\* n = 0: ln 0 = -inf, (-inf).powf(6.619) = +inf, and the cast saturates at usize::MAX.
AutoRaw(n) ==
    IF n = 0 THEN UsizeMax
    ELSE Usize(Cardinality({k \in 1..Len(AutoThresholds) : AutoThresholds[k] <= n}))

Min(a, b) == IF UsizeLess(a, b) THEN a ELSE b
Max(a, b) == IF UsizeLess(b, a) THEN a ELSE b

\* the clamp with its upper bound one too high
ClampOrderAboveMax(auto) ==
    UsizeToInt(Min(Max(auto, Usize(MinOrder)), Usize(MaxOrder + 1)))

\* min(max(auto, 3), 64)
ClampOrder(auto) == UsizeToInt(Min(Max(auto, Usize(MinOrder)), Usize(MaxOrder)))

\* let auto_approximation = if approximation_order == 0 { ... } else { approximation_order };
AutoApproximation(order, n) ==
    IF order = 0 THEN ClampOrder(AutoRaw(n)) ELSE order

\* ------------------------------------------------------------ render: deltas
Two == Double(SigOne, 1)
Four == Double(SigOne, 2)

\* 4.0 / n as f64 - 2.0
FourOverLessTwo(n) == Subtract(Divide(Four, FromUsize(n)), Two)

\* let delta_pixel = (-2.0 * (4.0 / H - 2.0) / zoom.mantissa) / H
DeltaPixel(h, m) ==
    Divide(Divide(Multiply(Negate(Two), FourOverLessTwo(h)), m), FromUsize(h))

\* let aspect = image_width as f64 / image_height as f64
Aspect(w, h) == Divide(FromUsize(w), FromUsize(h))

\* let delta_top_left = ComplexFixed::new((4.0 / W - 2.0) / zoom.mantissa * aspect,
\*                                        (4.0 / H - 2.0) / zoom.mantissa)
DeltaTopLeft(w, h, m) ==
    <<Multiply(Divide(FourOverLessTwo(w), m), Aspect(w, h)),
      Divide(FourOverLessTwo(h), m)>>

\* ComplexFixed::new(i as f64 * delta_pixel + delta_top_left.re,
\*                   j as f64 * delta_pixel + delta_top_left.im)
ElementOf(i, j, delta_pixel, delta_top_left) ==
    <<Add(Multiply(FromUsize(i), delta_pixel), delta_top_left[1]),
      Add(Multiply(FromUsize(j), delta_pixel), delta_top_left[2])>>

\* lines 69, 72 and 108 for pixel (i, j) of a W x H image at zoom mantissa m
ElementAt(i, j, w, h, m) ==
    CHOOSE element \in
        {ElementOf(i, j, delta_pixel, delta_top_left) :
             delta_pixel \in {DeltaPixel(h, m)},
             delta_top_left \in {DeltaTopLeft(w, h, m)}} : TRUE

\* ------------------------------------------------------- ComplexExtended
\* A delta in the extended domain is kept as a pair of fixed point numbers
\* in units of 1 / (2 * zoom.mantissa * image_height^2), the last bit sticky:
\* a double of exactly n units of 1 / (zoom.mantissa * image_height^2) is 2 * n,
\* one strictly between n and n + 1 units is 2 * n + 1, and a negative double
\* is the opposite of its absolute value.  The sign of a double and whether
\* it is zero are kept, and doubles in order stay in order.
FixedOf(sign, units, places) ==
    CHOOSE fixed \in
        {sign * (2 * IntOfWide(whole)
                 + (IF places > 0 /\ AnyBitBelow(units, places) THEN 1 ELSE 0)) :
             whole \in {IF places >= 0 THEN ShiftRight(units, places)
                        ELSE ShiftLeft(units, 0 - places)}} : TRUE
Fixed(x, m, h) ==
    IF x.class = "zero" THEN 0
    ELSE CHOOSE fixed \in
             {FixedOf(x.sign, units, 2 * FractionBits - x.exp - m.exp) :
                  units \in {WideMul(WideMul(WideOfSig(x.sig), WideOfSig(m.sig)),
                                     WideOf(h * h))}} : TRUE

\* ComplexExtended::new(element, -self.zoom.exponent)
PointDeltaAt(element, m, h) ==
    CHOOSE delta \in
        {<<Fixed(e[1], m, h), Fixed(e[2], m, h)>> : e \in {element}} : TRUE

\* delta_pixel_extended * delta_pixel_extended
Squared(x) == Multiply(x, x)

\* ---------------------------------------------------- the renders explored
\* image sizes render is explored on
SmallSizes ==
    {wh \in (0..MaxPixels) \X (0..MaxPixels) : wh[1] * wh[2] <= MaxPixels}

\* the significand of j / 2^InputBits, for j / 2^InputBits in [1, 2)
InputSig(j) == <<j * 2 ^ (FractionBits \div 2 - InputBits), 0>>
InputSigs == {InputSig(j) : j \in (2 ^ InputBits)..(2 ^ (InputBits + 1) - 1)}

\* zooms render_sequence is started from: zero and the canonical values with
\* exponent in -1..MaxZoomExponent
InitialZooms ==
    {ZoomZero} \cup
    {[mantissa |-> Double(sig, 0), exponent |-> e] :
         sig \in InputSigs, e \in (-1)..MaxZoomExponent}

\* scale factors above 1.0: those in (1, 2) on the input grid, 2.0, 4.0 and
\* +infinity
ScaleFactors ==
    {Double(sig, 0) : sig \in InputSigs \ {SigOne}} \cup
    {Double(SigOne, 1), Double(SigOne, 2), DoubleInfinity}

\* the zooms at which render_sequence calls render, from zoom z with scale
\* factor k > 1
RECURSIVE Keyframes(_, _)
Keyframes(z, k) ==
    IF CompareToOne(z) <= 0 THEN {}
    ELSE {z} \cup
         UNION {Keyframes(next, k) :
                    next \in {Reduce([z EXCEPT !.mantissa = Divide(z.mantissa, k)])}}

\* <<image_width, image_height, zoom.mantissa>> of the renders explored: every
\* small size at zoom 1.0, and the one pixel image at the keyframes of the
\* explored sequences
Renders ==
    {<<wh[1], wh[2], Double(SigOne, 0)>> : wh \in SmallSizes} \cup
    {<<1, 1, z.mantissa>> :
         z \in UNION {Keyframes(z0, k) : z0 \in InitialZooms, k \in ScaleFactors}}

\* The deltas of the renders explored are computed once and kept as tables
\* (f @@ <<>> is f as a table); other arguments are computed when asked for.
DeltasAt(w, h, m) ==
    CHOOSE deltas \in
        {[delta_pixel |-> delta_pixel, delta_pixel_square |-> Squared(delta_pixel),
          delta_top_left |-> DeltaTopLeft(w, h, m)] :
             delta_pixel \in {DeltaPixel(h, m)}} : TRUE
KnownDeltas == [render \in Renders |-> DeltasAt(render[1], render[2], render[3])] @@ <<>>

\* render's locals delta_pixel and delta_top_left, and delta_pixel squared
Deltas(w, h, m) ==
    IF <<w, h, m>> \in DOMAIN KnownDeltas THEN KnownDeltas[<<w, h, m>>]
    ELSE DeltasAt(w, h, m)

KnownElements ==
    [p \in {<<i, j, render[1], render[2], render[3]>> :
                i \in 0..(MaxPixels - 1), j \in 0..(MaxPixels - 1), render \in Renders} |->
         ElementOf(p[1], p[2], KnownDeltas[<<p[3], p[4], p[5]>>].delta_pixel,
                   KnownDeltas[<<p[3], p[4], p[5]>>].delta_top_left)] @@ <<>>

\* the element of pixel (i, j) of a W x H image at zoom mantissa m
Element(i, j, w, h, m) ==
    IF <<i, j, w, h, m>> \in DOMAIN KnownElements THEN KnownElements[<<i, j, w, h, m>>]
    ELSE ElementAt(i, j, w, h, m)

KnownPointDeltas ==
    [p \in {<<KnownElements[q], q[5], q[4]>> : q \in DOMAIN KnownElements} |->
         PointDeltaAt(p[1], p[2], p[3])] @@ <<>>

\* ComplexExtended::new(element, -self.zoom.exponent)
PointDelta(element, m, h) ==
    IF <<element, m, h>> \in DOMAIN KnownPointDeltas
    THEN KnownPointDeltas[<<element, m, h>>]
    ELSE PointDeltaAt(element, m, h)

NoSeriesApproximation ==
    [made |-> FALSE, ran |-> FALSE, order |-> 0, maximum_iteration |-> 0,
     current_iteration |-> 0, delta_pixel_square |-> DoubleZero,
     delta_top_left |-> <<DoubleZero, DoubleZero>>]

\* SeriesApproximation::new(center, order, maximum_iteration, delta_pixel^2, delta_top_left)
SeriesApproximationNew(order, maxiter, delta_pixel_square, delta_top_left) ==
    [made |-> TRUE, ran |-> FALSE, order |-> order, maximum_iteration |-> maxiter,
     current_iteration |-> 0, delta_pixel_square |-> delta_pixel_square,
     delta_top_left |-> delta_top_left]

\* run(): the skip count it settles on, at most escape_iteration - 1.
SkipCounts(sa) == 0..(sa.maximum_iteration - 1)

\* evaluate(delta) = sum of a_i delta^i by Horner; a polynomial without constant
\* term.  The coefficient values are abstracted to a_1 = a_2 = 1.
Evaluate(delta) == CMul(CAdd(CMul(One, delta), One), delta)

\* ------------------------------------------------------ reference orbit
\* uses counts the calls of Perturbation::iterate the orbit was handed to
NoReference ==
    [made |-> FALSE, ran |-> FALSE, start_iteration |-> 0, current_iteration |-> 0,
     maximum_iteration |-> 0, delta |-> Zero, uses |-> 0]

\* a reference orbit constructed anew at delta0, from iteration 0
FreshReference(sa, delta0) ==
    [made |-> TRUE, ran |-> FALSE, start_iteration |-> 0, current_iteration |-> 0,
     maximum_iteration |-> sa.maximum_iteration, delta |-> delta0, uses |-> 0]

\* get_reference(delta0): start_iteration = the approximation's current_iteration,
\* c = center + delta0.
GetReference(sa, delta0) ==
    [made |-> TRUE, ran |-> FALSE, start_iteration |-> sa.current_iteration,
     current_iteration |-> sa.current_iteration,
     maximum_iteration |-> sa.maximum_iteration, delta |-> delta0, uses |-> 0]

\* run(): current_iteration = N, the first index that escapes, or maximum_iteration.
ReferenceRunResults(ref) == ref.start_iteration..ref.maximum_iteration

\* ------------------------------------------------------------- PixelData
\* the packing closure splitting the index by the height instead of the width
PackPixelByHeight(index, w, h, m, ref) ==
    LET i == index % h
        j == index \div h
    IN  CHOOSE pixel \in
            {[image_x |-> i,
              image_y |-> j,
              iteration |-> ref.start_iteration,
              delta_centre |-> point_delta,
              delta_reference |-> point_delta,
              delta_start |-> new_delta,
              delta_current |-> new_delta,
              derivative_current |-> One,
              glitched |-> FALSE,
              escaped |-> FALSE] :
                 <<point_delta, new_delta>> \in
                     {<<delta, Evaluate(delta)>> :
                           delta \in {PointDelta(Element(i, j, w, h, m), m, h)}}} : TRUE

\* the PixelData literal built by the packing closure for one index
PackPixel(index, w, h, m, ref) ==
    LET i == index % w
        j == index \div w
    IN  CHOOSE pixel \in
            {[image_x |-> i,
              image_y |-> j,
              iteration |-> ref.start_iteration,
              delta_centre |-> point_delta,
              delta_reference |-> point_delta,
              delta_start |-> new_delta,
              delta_current |-> new_delta,
              derivative_current |-> One,
              glitched |-> FALSE,
              escaped |-> FALSE] :
                 <<point_delta, new_delta>> \in
                     {<<delta, Evaluate(delta)>> :
                           delta \in {PointDelta(Element(i, j, w, h, m), m, h)}}} : TRUE

\* the reset restarting at iteration 0 instead of the skipped count
ResetPixelFromZero(pixel, ref, dz, ref_wrt_sa) ==
    [pixel EXCEPT !.iteration = 0,
                  !.glitched = FALSE,
                  !.delta_current = CSub(pixel.delta_start, dz),
                  !.delta_reference = CSub(pixel.delta_centre, ref_wrt_sa)]

\* the reset also moving delta_centre and delta_start into the new reference's frame
ResetPixelRecentred(pixel, ref, dz, ref_wrt_sa) ==
    [pixel EXCEPT !.iteration = ref.start_iteration,
                  !.glitched = FALSE,
                  !.delta_current = CSub(pixel.delta_start, dz),
                  !.delta_reference = CSub(pixel.delta_centre, ref_wrt_sa),
                  !.delta_start = CSub(pixel.delta_start, dz),
                  !.delta_centre = CSub(pixel.delta_centre, ref_wrt_sa)]

\* the body of the repair pass's par_iter_mut().for_each closure
ResetPixel(pixel, ref, dz, ref_wrt_sa) ==
    [pixel EXCEPT !.iteration = ref.start_iteration,
                  !.glitched = FALSE,
                  !.delta_current = CSub(pixel.delta_start, dz),
                  !.delta_reference = CSub(pixel.delta_centre, ref_wrt_sa)]

\* a retain that keeps every pixel
RetainAll(packet) == TRUE

\* pixel_data.retain(|packet| packet.glitched)
RetainPredicate(packet) == packet.glitched

Retain(pixels) == SelectSeq(pixels, RetainPredicate)

\* the loop condition with >= for >
AboveThresholdOrEqual(len, w, h) ==
    len * LoopFactorInv * GlitchToleranceInv >= w * h

\* the loop condition without the tolerance factors
AboveThresholdNoTolerance(len, w, h) == len > w * h

\* pixel_data.len() as f64 > 0.01 * glitch_tolerance * (W * H) as f64
AboveThreshold(len, w, h) == len * LoopFactorInv * GlitchToleranceInv > w * h

\* ---------------------------------------------------------- Perturbation
\* Abstract values of Z_n + delta_n met by a pixel while it is advanced.
ReferenceSamples == {1}

\* derivative d' = 2 (Z_n + delta_n) d + 1
DerivativeStep(d, z) == CAdd(CScale(2 * z, d), One)

\* a number held within the range that is followed
Clamped(x) ==
    IF x > DerivativeMax THEN DerivativeMax
    ELSE IF x < 0 - DerivativeMax THEN 0 - DerivativeMax
    ELSE x

\* a derivative held within the range that is followed
Saturated(d) == <<Clamped(d[1]), Clamped(d[2])>>

\* a call counter after one more call
Counted(n) == IF n < CountCap THEN n + 1 ELSE n

\* delta' = 2 Z_n delta + delta^2 + c_delta, with Z_n = z - delta
PerturbationStep(delta, c_delta, z) ==
    CAdd(CSub(CScale(2 * z, delta), CMul(delta, delta)), c_delta)

\* The glitch detector |Z_n + delta_n|^2 < 1e-3 |delta_n|^2 can only fire on a
\* non-zero delta_n, and delta_n stays zero while delta_current and the pixel's
\* offset from the reference are both zero.
CanGlitch(pixel) == pixel.delta_current # Zero \/ pixel.delta_reference # Zero

\* The pixel after it was advanced to iteration n and stopped there: flag is
\* "escaped", "glitched" or "none" (n is then the cap).  The steps taken are
\* summarised by one application of the recurrences.
Advance(pixel, n, z, flag) ==
    IF n = pixel.iteration
    THEN [pixel EXCEPT !.glitched = (flag = "glitched"),
                       !.escaped = (flag = "escaped")]
    ELSE [pixel EXCEPT !.iteration = n,
                       !.delta_current = PerturbationStep(@, pixel.delta_reference, z),
                       !.derivative_current = Saturated(DerivativeStep(@, z)),
                       !.glitched = (flag = "glitched"),
                       !.escaped = (flag = "escaped")]

\* iterate advances every non-escaped, non-glitched pixel from its iteration up to
\* the cap; a pixel stops earlier when it escapes or, where the detector can fire
\* (may_glitch), glitches.
IterateOutcomes(pixel, cap, may_glitch) ==
    IF pixel.glitched \/ pixel.escaped \/ pixel.iteration >= cap
    THEN {pixel}
    ELSE {Advance(pixel, n, z, "escaped") :
              n \in pixel.iteration..(cap - 1), z \in ReferenceSamples}
         \cup (IF may_glitch
               THEN {Advance(pixel, n, z, "glitched") :
                         n \in pixel.iteration..(cap - 1), z \in ReferenceSamples}
               ELSE {})
         \cup {Advance(pixel, cap, z, "none") : z \in ReferenceSamples}

\* iterate with the glitch detector of 4.5
IterateResults(pixel, cap) == IterateOutcomes(pixel, cap, CanGlitch(pixel))

\* iterate as render sees it: a routine that may set glitched on any pixel it
\* advances, the pixel the reference was taken at included
IterateResultsAnyFlag(pixel, cap) == IterateOutcomes(pixel, cap, TRUE)

\* ------------------------------------------------------------ DataExport
\* DataExport::new(image_width, image_height, display_glitches, DataType::BOTH):
\* image maps the index of every pixel exported so far to what was exported.
DataExportNew(w, h) ==
    [image_width |-> w, image_height |-> h, image |-> <<>>,
     reference |-> NoReference, exports |-> 0]

ExportIndex(de, pixel) == pixel.image_y * de.image_width + pixel.image_x

ExportEntry(pixel) ==
    [iteration |-> pixel.iteration, glitched |-> pixel.glitched,
     escaped |-> pixel.escaped]

\* export_pixels(&pixel_data, maximum_iteration, &reference): every pixel of the
\* array is written at its (image_x, image_y).
ExportPixels(de, pixels, ref) ==
    LET written == {ExportIndex(de, pixels[q]) : q \in 1..Len(pixels)}
        last(k) == CHOOSE q \in 1..Len(pixels) :
                       /\ ExportIndex(de, pixels[q]) = k
                       /\ \A q2 \in 1..Len(pixels) :
                              ExportIndex(de, pixels[q2]) = k => q2 <= q
    IN  [de EXCEPT !.image = [k \in (DOMAIN de.image) \cup written |->
                                  IF k \in written THEN ExportEntry(pixels[last(k)])
                                  ELSE de.image[k]],
                   !.reference = ref,
                   !.exports = Counted(@)]

\* ----------------------------------------------------------- two runs
\* nothing recorded of a first run
NoRun == [image |-> <<>>, choices |-> <<>>, reordered |-> FALSE]

\* what a finished run leaves to compare the next run with
RunRecord(de, drawn, out_of_order) ==
    [image |-> de.image, choices |-> drawn, reordered |-> out_of_order]

\* The numeric routines are functions of their arguments: the results a call may
\* give, among those in all, once the calls in made have given theirs.
Allowed(made, call, all) ==
    IF \E done \in made : done.call = call
    THEN {done.result : done \in {d \in made : d.call = call}} \cap all
    ELSE all

Recorded(made, call, result) == made \cup {[call |-> call, result |-> result]}

\* the reference orbit a call of iterate was handed, whatever its count of uses
Orbit(ref) == [ref EXCEPT !.uses = 0]

\* ------------------------------------------------------------ the settings
\* image sizes the constructor alone is explored on
LargeDimensions == {0, 1} \cup {k * SizeStep : k \in 1..MaxScale}

InitLocals ==
    /\ pc = "new"
    /\ approximation_order = 0
    /\ series_approximation = NoSeriesApproximation
    /\ reference = NoReference
    /\ r = NoReference
    /\ pixel_data = <<>>
    /\ packed = <<>>
    /\ pending = {}
    /\ delta_c = <<>>
    /\ reference_wrt_sa = Zero
    /\ delta_z = Zero
    /\ iterate_reference = NoReference
    /\ iterate_cap = 0
    /\ data_export = DataExportNew(0, 0)
    /\ saved = FALSE
    /\ passes = 0
    /\ zoom = ZoomOne
    /\ scale_factor = Double(SigOne, 1)
    /\ count = 0
    /\ renders = 0
    /\ run = 1
    /\ first = NoRun
    /\ choices = <<>>
    /\ reordered = FALSE
    /\ results = {}

Init ==
    /\ \E wh \in SmallSizes : image_width = wh[1] /\ image_height = wh[2]
    /\ maximum_iteration \in 1..MaxIter
    /\ InitLocals

InitLive ==
    /\ \E wh \in SmallSizes : image_width = wh[1] /\ image_height = wh[2]
    /\ maximum_iteration \in 1..LiveWork
    /\ image_width * image_height * maximum_iteration <= LiveWork
    /\ InitLocals

InitNew ==
    /\ image_width \in LargeDimensions
    /\ image_height \in LargeDimensions
    /\ maximum_iteration = 1
    /\ InitLocals

\* a constructed renderer of a one pixel image, about to run render_sequence
InitSequence ==
    /\ pc = "sequence"
    /\ image_width = 1
    /\ image_height = 1
    /\ maximum_iteration = 1
    /\ approximation_order = AutoApproximation(0, 1)
    /\ series_approximation = NoSeriesApproximation
    /\ reference = NoReference
    /\ r = NoReference
    /\ pixel_data = <<>>
    /\ packed = <<>>
    /\ pending = {}
    /\ delta_c = <<>>
    /\ reference_wrt_sa = Zero
    /\ delta_z = Zero
    /\ iterate_reference = NoReference
    /\ iterate_cap = 0
    /\ data_export = DataExportNew(1, 1)
    /\ saved = FALSE
    /\ passes = 0
    /\ zoom \in InitialZooms
    /\ scale_factor \in ScaleFactors
    /\ count = 0
    /\ renders = 0
    /\ run = 1
    /\ first = NoRun
    /\ choices = <<>>
    /\ reordered = FALSE
    /\ results = {}

\* ------------------------------------------------------------------ new
New ==
    /\ pc = "new"
    /\ approximation_order' = AutoApproximation(approximation_order,
                                                image_width * image_height)
    /\ data_export' = DataExportNew(image_width, image_height)
    /\ pc' = "render"
    /\ UNCHANGED <<image_width, image_height, maximum_iteration, series_approximation,
                   reference, r, pixel_data, packed, pending, delta_c,
                   reference_wrt_sa, delta_z, iterate_reference, iterate_cap, saved>>
    /\ UNCHANGED <<passes, sequence_vars, replay_vars>>

\* --------------------------------------------------------------- render
\* let mut series_approximation = SeriesApproximation::new(...)
SeriesApproximationBuild ==
    /\ pc = "render"
    /\ series_approximation' =
           SeriesApproximationNew(approximation_order, maximum_iteration,
                                  Deltas(image_width, image_height,
                                         zoom.mantissa).delta_pixel_square,
                                  Deltas(image_width, image_height,
                                         zoom.mantissa).delta_top_left)
    /\ pc' = "sa_run"
    /\ UNCHANGED <<image_width, image_height, maximum_iteration, approximation_order,
                   reference, r, pixel_data, packed, pending, delta_c,
                   reference_wrt_sa, delta_z, iterate_reference, iterate_cap,
                   data_export, saved>>
    /\ UNCHANGED <<passes, sequence_vars, replay_vars>>

\* series_approximation.run() settling on the skip count skip
ApproximationRun(skip) ==
    /\ pc = "sa_run"
    /\ series_approximation' =
           [series_approximation EXCEPT !.current_iteration = skip, !.ran = TRUE]
    /\ pc' = "get_reference"
    /\ UNCHANGED <<image_width, image_height, maximum_iteration, approximation_order,
                   reference, r, pixel_data, packed, pending, delta_c,
                   reference_wrt_sa, delta_z, iterate_reference, iterate_cap,
                   data_export, saved>>
    /\ UNCHANGED <<passes, sequence_vars>>

\* series_approximation.run()
SeriesApproximationRun ==
    /\ pc = "sa_run"
    /\ \E skip \in SkipCounts(series_approximation) : ApproximationRun(skip)
    /\ UNCHANGED replay_vars

\* let mut reference = series_approximation.get_reference(ComplexExtended::new2(0.0, 0.0, 0))
FirstReference ==
    /\ pc = "get_reference"
    /\ reference' = GetReference(series_approximation, Zero)
    /\ pc' = "reference_run"
    /\ UNCHANGED <<image_width, image_height, maximum_iteration, approximation_order,
                   series_approximation, r, pixel_data, packed, pending, delta_c,
                   reference_wrt_sa, delta_z, iterate_reference, iterate_cap,
                   data_export, saved>>
    /\ UNCHANGED <<passes, sequence_vars, replay_vars>>

\* reference.run() ending at iteration n; then the parallel map over 0..W*H starts
ReferenceRun(n) ==
    /\ pc = "reference_run"
    /\ reference' = [reference EXCEPT !.current_iteration = n, !.ran = TRUE]
    /\ pending' = 0..(image_width * image_height - 1)
    /\ packed' = <<>>
    /\ pc' = "packing"
    /\ UNCHANGED <<image_width, image_height, maximum_iteration, approximation_order,
                   series_approximation, r, pixel_data, delta_c,
                   reference_wrt_sa, delta_z, iterate_reference, iterate_cap,
                   data_export, saved>>
    /\ UNCHANGED <<passes, sequence_vars>>

\* reference.run(); then the parallel map over 0..W*H starts
FirstReferenceRun ==
    /\ pc = "reference_run"
    /\ \E n \in ReferenceRunResults(reference) : ReferenceRun(n)
    /\ UNCHANGED replay_vars

\* results pushed on a shared vector in the order the workers finish
PackSlotByArrival(index, built) == Cardinality(DOMAIN built)

\* where the result of work item index is kept until the collect: an indexed
\* parallel iterator keeps it by its index
PackSlot(index, built) == index

\* one worker runs the packing closure on one index
PackWorker ==
    /\ pc = "packing"
    /\ \E index \in pending :
           /\ packed' = [k \in (DOMAIN packed) \cup {PackSlot(index, packed)} |->
                             IF k = PackSlot(index, packed)
                             THEN PackPixel(index, image_width, image_height, zoom.mantissa, reference)
                             ELSE packed[k]]
           /\ pending' = pending \ {index}
    /\ UNCHANGED <<pc, image_width, image_height, maximum_iteration, approximation_order,
                   series_approximation, reference, r, pixel_data, delta_c,
                   reference_wrt_sa, delta_z, iterate_reference, iterate_cap,
                   data_export, saved>>
    /\ UNCHANGED <<passes, sequence_vars, replay_vars>>

\* Every work item of the running parallel phase is done.
PhaseComplete == pending = {}

\* a collect in the reverse of the index order
CollectReversed(k, n) == n - k

\* the work item whose result is element k (from 1) of the n collected: an
\* indexed parallel iterator collects in index order
CollectIndex(k, n) == k - 1

\* .collect::<Vec<PixelData>>(): the pixels in index order
PackCollect ==
    /\ pc = "packing"
    /\ PhaseComplete
    /\ pixel_data' = [k \in 1..(image_width * image_height) |->
                          packed[CollectIndex(k, image_width * image_height)]]
    /\ packed' = <<>>
    /\ pc' = "iterate"
    /\ UNCHANGED <<image_width, image_height, maximum_iteration, approximation_order,
                   series_approximation, reference, r, pending, delta_c,
                   reference_wrt_sa, delta_z, iterate_reference, iterate_cap,
                   data_export, saved>>
    /\ UNCHANGED <<passes, sequence_vars, replay_vars>>

\* a cap one past the reference's last iteration
IterateCapOffByOne(ref) == ref.current_iteration + 1

\* the third argument of Perturbation::iterate: reference.current_iteration
IterateCap(ref) == ref.current_iteration

\* Perturbation::iterate(&mut pixel_data, &ref, ref.current_iteration) is entered
IterateCall(from, to, ref) ==
    /\ pc = from
    /\ iterate_reference' = [ref EXCEPT !.uses = @ + 1]
    /\ iterate_cap' = IterateCap(ref)
    /\ pending' = 1..Len(pixel_data)
    /\ pc' = to
    /\ UNCHANGED <<image_width, image_height, maximum_iteration, approximation_order,
                   series_approximation, pixel_data, packed, delta_c,
                   reference_wrt_sa, delta_z, data_export, saved>>
    /\ passes' = Counted(passes)
    /\ UNCHANGED <<sequence_vars, replay_vars>>

\* Perturbation::iterate(&mut pixel_data, &reference, reference.current_iteration)
FirstIterate ==
    /\ IterateCall("iterate", "iterating", reference)
    /\ reference' = [reference EXCEPT !.uses = @ + 1]
    /\ r' = r

\* the worker of pixel k ends with the pixel as q
IterateOne(k, q) ==
    /\ pc \in {"iterating", "r_iterating"}
    /\ pixel_data' = [pixel_data EXCEPT ![k] = q]
    /\ pending' = pending \ {k}
    /\ UNCHANGED <<pc, image_width, image_height, maximum_iteration, approximation_order,
                   series_approximation, reference, r, packed, delta_c,
                   reference_wrt_sa, delta_z, iterate_reference, iterate_cap,
                   data_export, saved>>
    /\ UNCHANGED <<passes, sequence_vars>>

\* one worker of Perturbation::iterate advances one pixel
IterateWorker ==
    /\ pc \in {"iterating", "r_iterating"}
    /\ \E k \in pending :
           \E q \in IterateResults(pixel_data[k], iterate_cap) : IterateOne(k, q)
    /\ UNCHANGED replay_vars

\* one worker of an iterate that is free to flag any pixel it advances
IterateWorkerAnyFlag ==
    /\ pc \in {"iterating", "r_iterating"}
    /\ \E k \in pending :
           \E q \in IterateResultsAnyFlag(pixel_data[k], iterate_cap) : IterateOne(k, q)
    /\ UNCHANGED replay_vars

\* Perturbation::iterate returns once every pixel was advanced
IterateReturn ==
    /\ PhaseComplete
    /\ \/ pc = "iterating" /\ pc' = "export"
       \/ pc = "r_iterating" /\ pc' = "r_export"
    /\ UNCHANGED <<image_width, image_height, maximum_iteration, approximation_order,
                   series_approximation, reference, r, pixel_data, packed, pending,
                   delta_c, reference_wrt_sa, delta_z, iterate_reference, iterate_cap,
                   data_export, saved>>
    /\ UNCHANGED <<passes, sequence_vars, replay_vars>>

\* self.data_export.export_pixels(&pixel_data, self.maximum_iteration, &reference)
FirstExport ==
    /\ pc = "export"
    /\ data_export' = ExportPixels(data_export, pixel_data, reference)
    /\ pc' = "retain"
    /\ UNCHANGED <<image_width, image_height, maximum_iteration, approximation_order,
                   series_approximation, reference, r, pixel_data, packed, pending,
                   delta_c, reference_wrt_sa, delta_z, iterate_reference, iterate_cap,
                   saved>>
    /\ UNCHANGED <<passes, sequence_vars, replay_vars>>

\* pixel_data.retain(|packet| packet.glitched) after the first pass
FirstRetain ==
    /\ pc = "retain"
    /\ pixel_data' = Retain(pixel_data)
    /\ pc' = "while"
    /\ UNCHANGED <<image_width, image_height, maximum_iteration, approximation_order,
                   series_approximation, reference, r, packed, pending,
                   delta_c, reference_wrt_sa, delta_z, iterate_reference, iterate_cap,
                   data_export, saved>>
    /\ UNCHANGED <<passes, sequence_vars, replay_vars>>

\* the while condition holds: the loop body is entered
LoopEnter ==
    /\ pc = "while"
    /\ AboveThreshold(Len(pixel_data), image_width, image_height)
    /\ pc' = "choose"
    /\ UNCHANGED <<image_width, image_height, maximum_iteration, approximation_order,
                   series_approximation, reference, r, pixel_data, packed, pending,
                   delta_c, reference_wrt_sa, delta_z, iterate_reference, iterate_cap,
                   data_export, saved>>
    /\ UNCHANGED <<passes, sequence_vars, replay_vars>>

\* the while condition fails: control reaches the "Fixing" report
LoopExit ==
    /\ pc = "while"
    /\ ~AboveThreshold(Len(pixel_data), image_width, image_height)
    /\ pc' = "fixing"
    /\ UNCHANGED <<image_width, image_height, maximum_iteration, approximation_order,
                   series_approximation, reference, r, pixel_data, packed, pending,
                   delta_c, reference_wrt_sa, delta_z, iterate_reference, iterate_cap,
                   data_export, saved>>
    /\ UNCHANGED <<passes, sequence_vars, replay_vars>>

\* the element computed with the chosen pixel's coordinates exchanged
ChosenElementTransposed(pixel, w, h, m) ==
    Element(pixel.image_y, pixel.image_x, w, h, m)

\* let element = ComplexFixed::new(delta_c.image_x as f64 * delta_pixel + delta_top_left.re,
\*                                 delta_c.image_y as f64 * delta_pixel + delta_top_left.im)
ChosenElement(pixel, w, h, m) == Element(pixel.image_x, pixel.image_y, w, h, m)

\* the RNG draws element k of pixel_data
Choose(k) ==
    /\ pc = "choose"
    /\ delta_c' = <<pixel_data[k]>>
    /\ reference_wrt_sa' =
           PointDelta(ChosenElement(pixel_data[k], image_width, image_height,
                                    zoom.mantissa),
                      zoom.mantissa, image_height)
    /\ pc' = "evaluate"
    /\ UNCHANGED <<image_width, image_height, maximum_iteration, approximation_order,
                   series_approximation, reference, r, pixel_data, packed, pending,
                   delta_z, iterate_reference, iterate_cap, data_export, saved>>
    /\ UNCHANGED <<passes, sequence_vars>>

\* let delta_c = pixel_data.choose(&mut rand::thread_rng()).unwrap().clone();
\* let element = ...; let reference_wrt_sa = ComplexExtended::new(element, -zoom.exponent)
ChooseReference ==
    /\ pc = "choose"
    /\ \E k \in 1..Len(pixel_data) : Choose(k)
    /\ UNCHANGED replay_vars

\* let delta_z = series_approximation.evaluate(reference_wrt_sa)
EvaluateDeltaZ ==
    /\ pc = "evaluate"
    /\ delta_z' = Evaluate(reference_wrt_sa)
    /\ pc' = "r_get"
    /\ UNCHANGED <<image_width, image_height, maximum_iteration, approximation_order,
                   series_approximation, reference, r, pixel_data, packed, pending,
                   delta_c, reference_wrt_sa, iterate_reference, iterate_cap,
                   data_export, saved>>
    /\ UNCHANGED <<passes, sequence_vars, replay_vars>>

\* series_approximation.get_reference(reference_wrt_sa)
RepairGetReference(sa, delta0) == GetReference(sa, delta0)

\* let mut r = series_approximation.get_reference(reference_wrt_sa)
RepairReference ==
    /\ pc = "r_get"
    /\ r' = RepairGetReference(series_approximation, reference_wrt_sa)
    /\ pc' = "r_run"
    /\ UNCHANGED <<image_width, image_height, maximum_iteration, approximation_order,
                   series_approximation, reference, pixel_data, packed, pending,
                   delta_c, reference_wrt_sa, delta_z, iterate_reference, iterate_cap,
                   data_export, saved>>
    /\ UNCHANGED <<passes, sequence_vars, replay_vars>>

\* r.run() ending at iteration n; then pixel_data.par_iter_mut().for_each starts
RepairRun(n) ==
    /\ pc = "r_run"
    /\ r' = [r EXCEPT !.current_iteration = n, !.ran = TRUE]
    /\ pending' = 1..Len(pixel_data)
    /\ pc' = "reset"
    /\ UNCHANGED <<image_width, image_height, maximum_iteration, approximation_order,
                   series_approximation, reference, pixel_data, packed,
                   delta_c, reference_wrt_sa, delta_z, iterate_reference, iterate_cap,
                   data_export, saved>>
    /\ UNCHANGED <<passes, sequence_vars>>

\* r.run(); then pixel_data.par_iter_mut().for_each starts
RepairReferenceRun ==
    /\ pc = "r_run"
    /\ \E n \in ReferenceRunResults(r) : RepairRun(n)
    /\ UNCHANGED replay_vars

\* every worker writing the first element of the array
ResetTargetFirst(k) == 1

\* the element of the array the worker of work item k may write: par_iter_mut
\* hands each closure call the &mut of its own element
ResetTarget(k) == k

\* one worker runs the reset closure on one pixel
ResetWorker ==
    /\ pc = "reset"
    /\ \E k \in pending :
           /\ pixel_data' = [pixel_data EXCEPT
                                 ![ResetTarget(k)] =
                                     ResetPixel(pixel_data[k], reference, delta_z,
                                                reference_wrt_sa)]
           /\ pending' = pending \ {k}
    /\ UNCHANGED <<pc, image_width, image_height, maximum_iteration, approximation_order,
                   series_approximation, reference, r, packed, delta_c,
                   reference_wrt_sa, delta_z, iterate_reference, iterate_cap,
                   data_export, saved>>
    /\ UNCHANGED <<passes, sequence_vars, replay_vars>>

\* for_each returns once every pixel was reset
ResetJoin ==
    /\ pc = "reset"
    /\ PhaseComplete
    /\ pc' = "r_iterate"
    /\ UNCHANGED <<image_width, image_height, maximum_iteration, approximation_order,
                   series_approximation, reference, r, pixel_data, packed, pending,
                   delta_c, reference_wrt_sa, delta_z, iterate_reference, iterate_cap,
                   data_export, saved>>
    /\ UNCHANGED <<passes, sequence_vars, replay_vars>>

\* Perturbation::iterate(&mut pixel_data, &r, r.current_iteration)
RepairIterate ==
    /\ IterateCall("r_iterate", "r_iterating", r)
    /\ r' = [r EXCEPT !.uses = @ + 1]
    /\ reference' = reference

\* the first pass's reference handed to the loop's export
RepairExportStaleReference == reference

\* the reference handed to export_pixels in the loop: &r
RepairExportReference == r

\* a repair pass that goes on to its retain without exporting
RepairExportSkipped ==
    /\ pc = "r_export"
    /\ pc' = "r_retain"
    /\ UNCHANGED <<image_width, image_height, maximum_iteration, approximation_order,
                   series_approximation, reference, r, pixel_data, packed, pending,
                   delta_c, reference_wrt_sa, delta_z, iterate_reference, iterate_cap,
                   data_export, saved, passes, sequence_vars, replay_vars>>

\* self.data_export.export_pixels(&pixel_data, self.maximum_iteration, &r)
RepairExport ==
    /\ pc = "r_export"
    /\ data_export' = ExportPixels(data_export, pixel_data, RepairExportReference)
    /\ pc' = "r_retain"
    /\ UNCHANGED <<image_width, image_height, maximum_iteration, approximation_order,
                   series_approximation, reference, r, pixel_data, packed, pending,
                   delta_c, reference_wrt_sa, delta_z, iterate_reference, iterate_cap,
                   saved>>
    /\ UNCHANGED <<passes, sequence_vars, replay_vars>>

\* pixel_data.retain(|packet| packet.glitched) at the end of the loop body; the
\* body's locals (delta_c, reference_wrt_sa, delta_z, r) go out of scope
RepairRetain ==
    /\ pc = "r_retain"
    /\ pixel_data' = Retain(pixel_data)
    /\ delta_c' = <<>>
    /\ reference_wrt_sa' = Zero
    /\ delta_z' = Zero
    /\ r' = NoReference
    /\ pc' = "while"
    /\ UNCHANGED <<image_width, image_height, maximum_iteration, approximation_order,
                   series_approximation, reference, packed, pending,
                   iterate_reference, iterate_cap, data_export, saved>>
    /\ UNCHANGED <<passes, sequence_vars, replay_vars>>

\* println!("Fixing ... (remaining {})", pixel_data.len())
Fixing ==
    /\ pc = "fixing"
    /\ pc' = "save"
    /\ UNCHANGED <<image_width, image_height, maximum_iteration, approximation_order,
                   series_approximation, reference, r, pixel_data, packed, pending,
                   delta_c, reference_wrt_sa, delta_z, iterate_reference, iterate_cap,
                   data_export, saved>>
    /\ UNCHANGED <<passes, sequence_vars, replay_vars>>

\* self.data_export.save(); return
Save ==
    /\ pc = "save"
    /\ saved' = TRUE
    /\ pc' = "done"
    /\ UNCHANGED <<image_width, image_height, maximum_iteration, approximation_order,
                   series_approximation, reference, r, pixel_data, packed, pending,
                   delta_c, reference_wrt_sa, delta_z, iterate_reference, iterate_cap,
                   data_export>>
    /\ UNCHANGED <<passes, sequence_vars, replay_vars>>

\* ------------------------------------------------------- render_sequence
\* the loop condition with >= for >
ZoomAtLeastOne(z) == CompareToOne(z) >= 0

\* self.zoom.to_float() > 1.0
ZoomAboveOne(z) == CompareToOne(z) > 0

\* count += 1 on an i32, as the outcomes the build can produce: above CountMax
\* a build with overflow checks panics, one without wraps around
NextCount(c) ==
    IF c = CountMax
    THEN {[panic |-> TRUE, count |-> c], [panic |-> FALSE, count |-> 0 - CountMax - 1]}
    ELSE {[panic |-> FALSE, count |-> c + 1]}

\* while self.zoom.to_float() > 1.0 { self.render(...): the condition holds and
\* render is called; its locals are fresh
SequenceRender ==
    /\ pc = "sequence"
    /\ ZoomAboveOne(zoom)
    /\ renders' = renders + 1
    /\ series_approximation' = NoSeriesApproximation
    /\ reference' = NoReference
    /\ r' = NoReference
    /\ pixel_data' = <<>>
    /\ packed' = <<>>
    /\ pending' = {}
    /\ delta_c' = <<>>
    /\ reference_wrt_sa' = Zero
    /\ delta_z' = Zero
    /\ iterate_reference' = NoReference
    /\ iterate_cap' = 0
    /\ saved' = FALSE
    /\ passes' = 0
    /\ pc' = "render"
    /\ UNCHANGED <<image_width, image_height, maximum_iteration, approximation_order,
                   data_export, zoom, scale_factor, count, replay_vars>>

\* render has returned: self.zoom.mantissa /= scale_factor; self.zoom.reduce();
\* count += 1, which ends render_sequence when it panics
SequenceAdvance ==
    /\ pc = "done"
    /\ \E quotient \in {DivideMantissa(zoom.mantissa, scale_factor)} :
           zoom' = Reduce([zoom EXCEPT !.mantissa = quotient])
    /\ \E next \in NextCount(count) :
           /\ count' = next.count
           /\ pc' = IF next.panic THEN "panicked" ELSE "sequence"
    /\ UNCHANGED <<image_width, image_height, maximum_iteration, approximation_order,
                   series_approximation, reference, r, pixel_data, packed, pending,
                   delta_c, reference_wrt_sa, delta_z, iterate_reference, iterate_cap,
                   data_export, saved, passes, scale_factor, renders, replay_vars>>

\* the loop condition fails: render_sequence returns
SequenceReturn ==
    /\ pc = "sequence"
    /\ ~ZoomAboveOne(zoom)
    /\ pc' = "sequence_done"
    /\ UNCHANGED <<image_width, image_height, maximum_iteration, approximation_order,
                   series_approximation, reference, r, pixel_data, packed, pending,
                   delta_c, reference_wrt_sa, delta_z, iterate_reference, iterate_cap,
                   data_export, saved, passes, sequence_vars, replay_vars>>

\* ------------------------------------------------------- specifications
Next ==
    \/ New
    \/ SeriesApproximationBuild
    \/ SeriesApproximationRun
    \/ FirstReference
    \/ FirstReferenceRun
    \/ PackWorker
    \/ PackCollect
    \/ FirstIterate
    \/ IterateWorker
    \/ IterateReturn
    \/ FirstExport
    \/ FirstRetain
    \/ LoopEnter
    \/ LoopExit
    \/ ChooseReference
    \/ EvaluateDeltaZ
    \/ RepairReference
    \/ RepairReferenceRun
    \/ ResetWorker
    \/ ResetJoin
    \/ RepairIterate
    \/ RepairExport
    \/ RepairRetain
    \/ Fixing
    \/ Save

\* render on small images
Spec == Init /\ [][Next]_vars

\* render around an iterate known by its signature only: it may flag any pixel
\* it advances
NextAnyFlag ==
    \/ New
    \/ SeriesApproximationBuild
    \/ SeriesApproximationRun
    \/ FirstReference
    \/ FirstReferenceRun
    \/ PackWorker
    \/ PackCollect
    \/ FirstIterate
    \/ IterateWorkerAnyFlag
    \/ IterateReturn
    \/ FirstExport
    \/ FirstRetain
    \/ LoopEnter
    \/ LoopExit
    \/ ChooseReference
    \/ EvaluateDeltaZ
    \/ RepairReference
    \/ RepairReferenceRun
    \/ ResetWorker
    \/ ResetJoin
    \/ RepairIterate
    \/ RepairExport
    \/ RepairRetain
    \/ Fixing
    \/ Save

\* The program keeps running: the sequential code takes its next step and the
\* worker pool runs every work item it was given.
FairSpec == InitLive /\ [][NextAnyFlag]_vars /\ WF_vars(NextAnyFlag)

\* ---- render run twice on the same settings
\* series_approximation.run(), a function of the approximation it is called on
SeriesApproximationRunAgain ==
    /\ pc = "sa_run"
    /\ \E skip \in Allowed(results, <<"sa_run", series_approximation>>,
                            SkipCounts(series_approximation)) :
           /\ ApproximationRun(skip)
           /\ results' = Recorded(results, <<"sa_run", series_approximation>>, skip)
    /\ UNCHANGED <<run, first, choices, reordered>>

\* reference.run(), a function of the reference it is called on
FirstReferenceRunAgain ==
    /\ pc = "reference_run"
    /\ \E n \in Allowed(results, <<"reference_run", reference>>, ReferenceRunResults(reference)) :
           /\ ReferenceRun(n)
           /\ results' = Recorded(results, <<"reference_run", reference>>, n)
    /\ UNCHANGED <<run, first, choices, reordered>>

\* r.run(), a function of the reference it is called on
RepairReferenceRunAgain ==
    /\ pc = "r_run"
    /\ \E n \in Allowed(results, <<"reference_run", r>>, ReferenceRunResults(r)) :
           /\ RepairRun(n)
           /\ results' = Recorded(results, <<"reference_run", r>>, n)
    /\ UNCHANGED <<run, first, choices, reordered>>

\* one worker of Perturbation::iterate: what it leaves of its pixel is a function
\* of the pixel, the reference orbit and the cap; the workers finish in any
\* order, and whether they left the order of the pixels is recorded
IterateWorkerAgain ==
    /\ pc \in {"iterating", "r_iterating"}
    /\ \E k \in pending :
           \E q \in Allowed(results,
                            <<"iterate", pixel_data[k], Orbit(iterate_reference),
                              iterate_cap>>,
                            IterateResults(pixel_data[k], iterate_cap)) :
               /\ IterateOne(k, q)
               /\ results' = Recorded(results,
                                      <<"iterate", pixel_data[k],
                                        Orbit(iterate_reference), iterate_cap>>, q)
               /\ reordered' = (reordered \/ \E j \in pending : j < k)
    /\ UNCHANGED <<run, first, choices>>

\* the indices rand::thread_rng() may draw from a vector of n elements: any of
\* them, in every pass of either run; no seed is set and no draw is kept
Draws(n) == 1..n

\* pixel_data.choose(&mut rand::thread_rng()), the drawn index recorded
ChooseReferenceAgain ==
    /\ pc = "choose"
    /\ \E k \in Draws(Len(pixel_data)) :
           /\ Choose(k)
           /\ choices' = Append(choices, k)
    /\ UNCHANGED <<run, first, reordered, results>>

\* render has returned; it is called again on a renderer constructed from the
\* same settings
SecondRun ==
    /\ pc = "done"
    /\ run = 1
    /\ run' = 2
    /\ first' = RunRecord(data_export, choices, reordered)
    /\ choices' = <<>>
    /\ reordered' = FALSE
    /\ pc' = "new"
    /\ approximation_order' = 0
    /\ series_approximation' = NoSeriesApproximation
    /\ reference' = NoReference
    /\ r' = NoReference
    /\ pixel_data' = <<>>
    /\ packed' = <<>>
    /\ pending' = {}
    /\ delta_c' = <<>>
    /\ reference_wrt_sa' = Zero
    /\ delta_z' = Zero
    /\ iterate_reference' = NoReference
    /\ iterate_cap' = 0
    /\ data_export' = DataExportNew(0, 0)
    /\ saved' = FALSE
    /\ passes' = 0
    /\ UNCHANGED <<image_width, image_height, maximum_iteration, sequence_vars, results>>

NextTwoRuns ==
    \/ New
    \/ SeriesApproximationBuild
    \/ SeriesApproximationRunAgain
    \/ FirstReference
    \/ FirstReferenceRunAgain
    \/ PackWorker
    \/ PackCollect
    \/ FirstIterate
    \/ IterateWorkerAgain
    \/ IterateReturn
    \/ FirstExport
    \/ FirstRetain
    \/ LoopEnter
    \/ LoopExit
    \/ ChooseReferenceAgain
    \/ EvaluateDeltaZ
    \/ RepairReference
    \/ RepairReferenceRunAgain
    \/ ResetWorker
    \/ ResetJoin
    \/ RepairIterate
    \/ RepairExport
    \/ RepairRetain
    \/ Fixing
    \/ Save
    \/ SecondRun

\* two runs of render on the same settings, one after the other, each under any
\* schedule of its workers
SpecTwoRuns == InitLive /\ [][NextTwoRuns]_vars

\* the constructor, and the order render hands to the series approximation
NextNew == New \/ SeriesApproximationBuild

SpecNew == InitNew /\ [][NextNew]_vars

\* render_sequence on a constructed renderer: its loop, and render inside it
NextSequence ==
    \/ SequenceRender
    \/ SequenceAdvance
    \/ SequenceReturn
    \/ SeriesApproximationBuild
    \/ SeriesApproximationRun
    \/ FirstReference
    \/ FirstReferenceRun
    \/ PackWorker
    \/ PackCollect
    \/ FirstIterate
    \/ IterateWorker
    \/ IterateReturn
    \/ FirstExport
    \/ FirstRetain
    \/ LoopEnter
    \/ LoopExit
    \/ ChooseReference
    \/ EvaluateDeltaZ
    \/ RepairReference
    \/ RepairReferenceRun
    \/ ResetWorker
    \/ ResetJoin
    \/ RepairIterate
    \/ RepairExport
    \/ RepairRetain
    \/ Fixing
    \/ Save

\* The keyframe loop keeps running, as render does.
SpecSequence == InitSequence /\ [][NextSequence]_vars /\ WF_vars(NextSequence)

\* ------------------------------------------------------------- properties
\* positions of render after the glitch repair loop
AfterLoop == {"fixing", "save", "done"}

\* the image index of a pixel
PixelIndex(pixel) == pixel.image_y * image_width + pixel.image_x

\* The same pixel (by its coordinates) before and after a step.
SamePixel(a, b) == a.image_x = b.image_x /\ a.image_y = b.image_y

\* A repair pass has made no progress: iterate has flagged every pixel it was
\* given, so that the retain keeps them all and the glitched count at the next
\* loop test is the count at the last one.
NoProgress ==
    /\ pc = "r_retain"
    /\ pixel_data # <<>>
    /\ \A q \in 1..Len(pixel_data) : pixel_data[q].glitched

C2_ResidualStrictlyBelow ==
    pc \in AfterLoop =>
        Len(pixel_data) * LoopFactorInv * GlitchToleranceInv
            < image_width * image_height

\* C2 amended: after the loop the residual glitched count is at most
\* 0.01 * glitch_tolerance * W * H.
C2_ResidualAtMost ==
    pc \in AfterLoop =>
        Len(pixel_data) * LoopFactorInv * GlitchToleranceInv
            <= image_width * image_height

\* C2 witness: the loop has been left after at least one repair pass.
C2_Witness == pc = "fixing" /\ data_export.exports >= 2

\* positions of render between a retain and the next export: pixel_data holds
\* only the survivors of the retain
AfterRetain ==
    {"while", "choose", "evaluate", "r_get", "r_run", "reset", "r_iterate",
     "r_iterating", "r_export"}

\* the pixel was exported and its exported state is not glitched
ResolvedInImage(k) ==
    k \in DOMAIN data_export.image /\ ~data_export.image[k].glitched

\* C3: a pixel that ended a pass escaped or at its cap (not glitched) is never
\* again in the pixel array, so it is not reset or iterated again, and its
\* exported entry never changes: the exported set of resolved pixels only grows.
C3_ResolvedPixelsKept ==
    /\ [](pc \in AfterRetain \cup AfterLoop =>
              \A q \in 1..Len(pixel_data) : ~ResolvedInImage(PixelIndex(pixel_data[q])))
    /\ [][\A k \in DOMAIN data_export.image :
              ResolvedInImage(k) =>
                  /\ k \in DOMAIN data_export'.image
                  /\ data_export'.image[k] = data_export.image[k]]_vars

\* C3 witness: a repair pass has exported while a pixel resolved by an earlier
\* pass (escaped) is in the image and not in the pixel array.
C3_Witness ==
    /\ pc = "r_retain"
    /\ Len(pixel_data) >= 1
    /\ \E k \in DOMAIN data_export.image :
           /\ data_export.image[k].escaped
           /\ \A q \in 1..Len(pixel_data) : PixelIndex(pixel_data[q]) # k

\* C4 as claimed: no step of render lowers a pixel's iteration.
C4_IterationNeverDecreases ==
    [][\A a \in 1..Len(pixel_data) : \A b \in 1..Len(pixel_data') :
           SamePixel(pixel_data[a], pixel_data'[b]) =>
               pixel_data'[b].iteration >= pixel_data[a].iteration]_vars

\* C4 amended: the only step that lowers a pixel's iteration is the repair
\* reset, which sets it to reference.start_iteration; no pixel's iteration is
\* ever below reference.start_iteration.
C4_IterationLoweredOnlyByReset ==
    /\ [][\A a \in 1..Len(pixel_data) : \A b \in 1..Len(pixel_data') :
              SamePixel(pixel_data[a], pixel_data'[b]) =>
                  \/ pixel_data'[b].iteration >= pixel_data[a].iteration
                  \/ /\ pc = "reset"
                     /\ pixel_data'[b].iteration = reference.start_iteration]_vars
    /\ [](\A q \in 1..Len(pixel_data) :
              pixel_data[q].iteration >= reference.start_iteration)

\* C4 witness: the reset has put a pixel that glitched after the skipped count
\* back to reference.start_iteration.
C4_Witness ==
    /\ pc = "reset"
    /\ \E q \in 1..Len(pixel_data) :
           /\ q \notin pending
           /\ pixel_data[q].iteration = reference.start_iteration
           /\ data_export.image[PixelIndex(pixel_data[q])].iteration
                  > reference.start_iteration

\* a pixel as Perturbation::iterate must receive it for reference ref
ReadyFor(pixel, ref) ==
    ~pixel.glitched /\ pixel.iteration = ref.start_iteration

\* C5: at every call of Perturbation::iterate each pixel handed over is not
\* glitched and stands at the start_iteration of the reference of that call
\* (reference in the first pass, r in a repair pass); a pixel keeps this until a
\* worker advances it.
C5_PixelsStartAtReferenceStart ==
    /\ pc = "iterate" =>
           \A q \in 1..Len(pixel_data) : ReadyFor(pixel_data[q], reference)
    /\ pc = "r_iterate" =>
           \A q \in 1..Len(pixel_data) : ReadyFor(pixel_data[q], r)
    /\ pc \in {"iterating", "r_iterating"} =>
           \A q \in pending : ReadyFor(pixel_data[q], iterate_reference)

\* C5 witness: a repair pass is about to iterate, against a reference r other
\* than the first one, a pixel that had glitched beyond the start iteration.
C5_Witness ==
    /\ pc = "r_iterate"
    /\ r # reference
    /\ \E q \in 1..Len(pixel_data) :
           data_export.image[PixelIndex(pixel_data[q])].iteration > r.start_iteration

\* C6 as claimed: when a repair pass hands the pixels to Perturbation::iterate,
\* every pixel's derivative_current has been reset to 1.
C6_DerivativeResetToOne ==
    pc = "r_iterate" =>
        \A q \in 1..Len(pixel_data) : pixel_data[q].derivative_current = One

\* Perturbation::iterate has nothing left to do on the pixel.
Finished(pixel) ==
    pixel.glitched \/ pixel.escaped \/ pixel.iteration >= iterate_cap

\* the image holds the pixel as it is now
ExportedAsIs(pixel) ==
    /\ PixelIndex(pixel) \in DOMAIN data_export.image
    /\ data_export.image[PixelIndex(pixel)] = ExportEntry(pixel)

\* C7: export runs only after Perturbation::iterate has completed for all pixels
\* of the pass (no work item is pending and every pixel is finished), it is given
\* the reference the pass iterated against, and the retain runs only after that
\* export (every pixel it sees, and so every survivor, is in the image as it is).
C7_ExportAfterBarrier ==
    /\ pc \in {"export", "r_export", "retain", "r_retain"} =>
           /\ pending = {}
           /\ \A q \in 1..Len(pixel_data) : Finished(pixel_data[q])
    /\ pc \in {"retain", "r_retain"} =>
           /\ data_export.reference = iterate_reference
           /\ \A q \in 1..Len(pixel_data) : ExportedAsIs(pixel_data[q])
    /\ pc = "while" =>
           \A q \in 1..Len(pixel_data) : ExportedAsIs(pixel_data[q])

\* C7 witness: a repair pass over two pixels, iterated against a reference other
\* than the first one, has been exported and is about to be retained.
C7_Witness ==
    /\ pc = "r_retain"
    /\ Len(pixel_data) >= 2
    /\ iterate_reference # reference
    /\ data_export.exports >= 2

\* the four pixel states of the specification
Active(pixel) ==
    ~pixel.glitched /\ ~pixel.escaped /\ pixel.iteration < maximum_iteration

ReachedMax(pixel) ==
    ~pixel.glitched /\ ~pixel.escaped /\ pixel.iteration >= maximum_iteration

InState(pixel, state) ==
    CASE state = "active" -> Active(pixel)
      [] state = "escaped" -> pixel.escaped
      [] state = "glitched" -> pixel.glitched
      [] state = "reached_max" -> ReachedMax(pixel)

ExactlyOneState(pixel) ==
    Cardinality({state \in {"active", "escaped", "glitched", "reached_max"} :
                     InState(pixel, state)}) = 1

\* C8: every pixel is at all times in exactly one of the states active, escaped,
\* glitched, reached_max (never both glitched and escaped), and the repair reset
\* always yields an active pixel.
C8_ExactlyOneState ==
    /\ \A q \in 1..Len(pixel_data) : ExactlyOneState(pixel_data[q])
    /\ \A k \in DOMAIN packed : ExactlyOneState(packed[k])
    /\ pc = "reset" =>
           \A q \in (1..Len(pixel_data)) \ pending : Active(pixel_data[q])
    /\ pc = "r_iterate" =>
           \A q \in 1..Len(pixel_data) : Active(pixel_data[q])

\* C8 witness: the reset has run on a pixel that glitched in the pass before,
\* next to a pixel still waiting for its reset.
C8_Witness ==
    /\ pc = "reset"
    /\ \E q \in 1..Len(pixel_data) :
           q \notin pending /\ data_export.image[PixelIndex(pixel_data[q])].glitched
    /\ \E q \in pending : pixel_data[q].glitched

\* C9: iteration <= maximum_iteration for every pixel at every point of render,
\* in the array, while packed and in the image; so are the seed value
\* (reference.start_iteration) and the cap handed to Perturbation::iterate.
C9_IterationBounded ==
    /\ \A q \in 1..Len(pixel_data) : pixel_data[q].iteration <= maximum_iteration
    /\ \A k \in DOMAIN packed : packed[k].iteration <= maximum_iteration
    /\ \A k \in DOMAIN data_export.image :
           data_export.image[k].iteration <= maximum_iteration
    /\ reference.made => reference.start_iteration <= maximum_iteration
    /\ r.made => r.start_iteration <= maximum_iteration
    /\ iterate_cap <= maximum_iteration

\* C9 witness: a pixel ran through a repair pass up to the cap, and the cap is
\* the configured maximum.
C9_Witness ==
    /\ pc = "r_export"
    /\ iterate_cap = maximum_iteration
    /\ \E q \in 1..Len(pixel_data) :
           /\ pixel_data[q].iteration = maximum_iteration
           /\ ~pixel_data[q].glitched /\ ~pixel_data[q].escaped

\* C10: for every image size the order new() stores, and render hands to the
\* series approximation, is the automatic order clamped to 3..64: the raw value
\* itself when it lies in 3..64, 3 below, 64 above; it is never 0.
C10_OrderClamped ==
    pc # "new" =>
        LET auto == AutoRaw(image_width * image_height)
        IN  /\ approximation_order \in MinOrder..MaxOrder
            /\ UsizeLess(auto, Usize(MinOrder)) => approximation_order = MinOrder
            /\ UsizeLess(Usize(MaxOrder), auto) => approximation_order = MaxOrder
            /\ ~UsizeLess(auto, Usize(MinOrder)) /\ ~UsizeLess(Usize(MaxOrder), auto) =>
                   approximation_order = UsizeToInt(auto)
            /\ series_approximation.made =>
                   series_approximation.order = approximation_order

\* C10 witness: an empty image (W * H = 0), whose raw automatic order is out of
\* range, has its order handed to the series approximation.
C10_Witness ==
    /\ pc = "sa_run"
    /\ image_width * image_height = 0
    /\ series_approximation.order = MaxOrder

\* positions of render_sequence itself (outside a call of render)
InSequence == {"sequence", "sequence_done"}

\* canonical form: zero, or a mantissa in [1, 2)
Canonical(z) ==
    \/ z = ZoomZero
    \/ /\ z.mantissa.class = "finite"
       /\ z.mantissa.exp = 0
       /\ ~Below(z.mantissa.sig, SigOne)
       /\ Below(z.mantissa.sig, SigTwo)

\* the value of canonical a is below that of canonical b > 0
ZoomBelow(a, b) ==
    \/ a = ZoomZero
    \/ a.exponent < b.exponent
    \/ a.exponent = b.exponent /\ Below(a.mantissa.sig, b.mantissa.sig)

\* C11: render_sequence calls render once per keyframe exactly while zoom > 1.0
\* (never at a zoom <= 1.0, so not at all when it starts there); after each
\* render it divides zoom.mantissa by the scale factor and renormalizes (the
\* zoom stays canonical and gets smaller, by the exact power of two when the
\* scale factor is one, to zero when it is infinite), and counts the render;
\* for every scale factor > 1 it returns, with zoom <= 1.0 and count equal to
\* the number of renders made.
C11_SequenceRendersWhileZoomAboveOne ==
    /\ <>(pc = "sequence_done")
    /\ [](pc = "sequence_done" => CompareToOne(zoom) <= 0 /\ count = renders)
    /\ [](pc \notin InSequence => CompareToOne(zoom) = 1)
    /\ [](renders = IF pc \in InSequence THEN count ELSE count + 1)
    /\ [](Canonical(zoom))
    /\ [][count' # count =>
              /\ count' = count + 1
              /\ ZoomBelow(zoom', zoom)
              /\ scale_factor.class = "inf" => zoom' = ZoomZero
              /\ scale_factor.class = "finite" =>
                     zoom'.exponent >= zoom.exponent - scale_factor.exp - 1
              /\ scale_factor.class = "finite" /\ scale_factor.sig = SigOne =>
                     /\ zoom'.mantissa = zoom.mantissa
                     /\ zoom'.exponent = zoom.exponent - scale_factor.exp]_vars

\* C11 witness: started at zoom 2.0 with scale factor 1.25, render_sequence
\* has returned after the four keyframes at 2.0, 1.6, 1.28 and 1.024, at the
\* double 0.8192 = 0x1.a36e2eb1c432dp-1.
C11_Witness ==
    /\ pc = "sequence_done"
    /\ count = 4
    /\ renders = count
    /\ scale_factor = Double(InputSig(5 * 2 ^ (InputBits - 2)), 0)
    /\ zoom = [mantissa |-> Double(<<109951162, 52183853>>, 0), exponent |-> -1]

\* C12: determinism modulo the glitch RNG.  render is run twice on the same
\* settings, each time under any schedule of its workers and with any draws of
\* its RNG; the numeric routines give equal results on equal arguments.  When
\* the second run has returned after drawing the sequence of indices the first
\* run drew, it has saved the image the first run saved, pixel for pixel.
C12_SecondRunSavesSameImage ==
    run = 2 /\ pc = "done" /\ choices = first.choices =>
        /\ saved
        /\ data_export.image = first.image

\* C12 witness: two runs over a two pixel image have ended, each after a repair
\* pass on the same drawn index; the workers of iterate finished in the order
\* of the pixels in the first run and out of it in the second, and the two
\* images are equal.
C12_Witness ==
    /\ run = 2
    /\ pc = "done"
    /\ saved
    /\ Cardinality(DOMAIN data_export.image) = 2
    /\ choices # <<>>
    /\ choices = first.choices
    /\ reordered
    /\ ~first.reordered
    /\ data_export.image = first.image

\* positions of render before the pixel vector exists
BeforeCollect ==
    {"new", "render", "sa_run", "get_reference", "reference_run", "packing"}

\* positions of the first pass, from the collect to its retain
FirstPass == {"iterate", "iterating", "export", "retain"}

\* the image indices of the pixels in the array
IndicesOf(pixels) == {PixelIndex(pixels[q]) : q \in 1..Len(pixels)}

\* the image indices whose exported entry is glitched
GlitchedInImage == {k \in DOMAIN data_export.image : data_export.image[k].glitched}

\* C13: the pixel vector is built once, by the collect, with W * H entries, and
\* keeps them through the first pass; afterwards no step adds a pixel or raises
\* the length; whenever the loop condition is tested and a repair pass starts,
\* the vector holds exactly the pixels that ended the previous pass glitched.
C13_PixelVectorOnlyShrinks ==
    /\ [](/\ pc \in BeforeCollect => pixel_data = <<>>
          /\ pc \in FirstPass => Len(pixel_data) = image_width * image_height
          /\ pc \in {"while", "choose"} =>
                 /\ IndicesOf(pixel_data) = GlitchedInImage
                 /\ \A q \in 1..Len(pixel_data) : pixel_data[q].glitched)
    /\ [][(pc # "packing") =>
              /\ Len(pixel_data') <= Len(pixel_data)
              /\ IndicesOf(pixel_data') \subseteq IndicesOf(pixel_data)]_vars
    /\ [][(pc = "packing" /\ pc' # pc) =>
              Len(pixel_data') = image_width * image_height]_vars

\* C13 witness: a second repair pass starts on a vector that has shrunk: of two
\* pixels glitched in the first pass one was resolved by the first repair pass.
C13_Witness ==
    /\ pc = "choose"
    /\ data_export.exports >= 2
    /\ Len(pixel_data) >= 1
    /\ Len(pixel_data) < image_width * image_height
    /\ Cardinality(DOMAIN data_export.image) = image_width * image_height

\* positions of a repair pass at which the chosen pixel is in the array
ChoiceMade ==
    {"evaluate", "r_get", "r_run", "reset", "r_iterate"}

\* the element of the array that was chosen (delta_c is its clone)
IsChosen(q) == delta_c # <<>> /\ SamePixel(pixel_data[q], delta_c[1])

\* C14: in each repair pass delta_c is a clone of a member of the glitched pool,
\* and the new reference offset, recomputed from its image_x and image_y, equals
\* that pixel's delta_centre; the new reference is built at that offset; and
\* once the reset has run on the sampled pixel its delta_reference and its
\* delta_current are 0.
C14_ReferenceAtSampledPixel ==
    /\ pc \in ChoiceMade =>
           /\ \E q \in 1..Len(pixel_data) : IsChosen(q)
           /\ delta_c[1].glitched
           /\ reference_wrt_sa = delta_c[1].delta_centre
           /\ \A q \in 1..Len(pixel_data) :
                  IsChosen(q) => reference_wrt_sa = pixel_data[q].delta_centre
    /\ pc \in {"r_run", "reset", "r_iterate"} => r.delta = reference_wrt_sa
    /\ pc \in {"reset", "r_iterate"} =>
           \A q \in 1..Len(pixel_data) :
               IsChosen(q) /\ (pc = "reset" => q \notin pending) =>
                   /\ pixel_data[q].delta_reference = Zero
                   /\ pixel_data[q].delta_current = Zero

\* C14 witness: the reset has run on the sampled pixel, which lies off the image
\* centre, while another pixel of the pool still waits for its reset.
C14_Witness ==
    /\ pc = "reset"
    /\ pending # {}
    /\ \E q \in 1..Len(pixel_data) :
           /\ IsChosen(q)
           /\ q \notin pending
           /\ pixel_data[q].delta_centre # Zero
           /\ pixel_data[q].delta_start # Zero
           /\ pixel_data[q].delta_current = Zero

\* a pixel as the packing closure must leave it
Seeded(pixel) ==
    /\ pixel.image_x \in 0..(image_width - 1)
    /\ pixel.image_y \in 0..(image_height - 1)
    /\ pixel.iteration = reference.start_iteration
    /\ pixel.delta_centre =
           PointDelta(Element(pixel.image_x, pixel.image_y, image_width, image_height,
                              zoom.mantissa),
                      zoom.mantissa, image_height)
    /\ pixel.delta_reference = pixel.delta_centre
    /\ pixel.delta_current = pixel.delta_start
    /\ pixel.derivative_current = One
    /\ ~pixel.glitched
    /\ ~pixel.escaped

\* C15: packing builds exactly one PixelData per coordinate (i, j) with
\* 0 <= i < W and 0 <= j < H: work item index becomes (index mod W, index div W),
\* and the collected vector has W * H pixels, one for each coordinate; each
\* starts with iteration = reference.start_iteration, delta_reference =
\* delta_centre, delta_current = delta_start, and neither glitched nor escaped.
C15_OnePixelPerCoordinate ==
    /\ \A index \in DOMAIN packed :
           /\ packed[index].image_x = index % image_width
           /\ packed[index].image_y = index \div image_width
           /\ packed[index].image_y * image_width + packed[index].image_x = index
           /\ Seeded(packed[index])
    /\ pc = "iterate" =>
           /\ Len(pixel_data) = image_width * image_height
           /\ \A q \in 1..Len(pixel_data) : Seeded(pixel_data[q])
           /\ \A i \in 0..(image_width - 1) : \A j \in 0..(image_height - 1) :
                  Cardinality({q \in 1..Len(pixel_data) :
                                   /\ pixel_data[q].image_x = i
                                   /\ pixel_data[q].image_y = j}) = 1

\* C15 witness: the pixels of an image of more than one pixel have been packed
\* and collected.
C15_Witness ==
    /\ pc = "iterate"
    /\ image_width * image_height >= 2
    /\ Len(pixel_data) = image_width * image_height
    /\ reference.start_iteration >= 1

\* what packing sets once for a pixel
SameSeed(a, b) ==
    /\ a.image_x = b.image_x
    /\ a.image_y = b.image_y
    /\ a.delta_centre = b.delta_centre
    /\ a.delta_start = b.delta_start

\* b is a with, at most, the four fields the reset writes changed
OnlyResetFields(a, b) ==
    b = [a EXCEPT !.iteration = b.iteration,
                  !.glitched = b.glitched,
                  !.delta_current = b.delta_current,
                  !.delta_reference = b.delta_reference]

\* C16: after packing no step of render changes a pixel's image_x, image_y,
\* delta_centre or delta_start: every step but a retain leaves each element of
\* the array with these four as they were, a retain only drops elements, and
\* the repair reset changes iteration, glitched, delta_current and
\* delta_reference and nothing else of a pixel.
C16_SeedFieldsNeverChange ==
    /\ [][(pc \notin BeforeCollect /\ pc \notin {"retain", "r_retain"}) =>
              /\ Len(pixel_data') = Len(pixel_data)
              /\ \A q \in 1..Len(pixel_data) :
                     SameSeed(pixel_data[q], pixel_data'[q])]_vars
    /\ [][(pc \in {"retain", "r_retain"}) =>
              \A b \in 1..Len(pixel_data') :
                  \E a \in 1..Len(pixel_data) : pixel_data'[b] = pixel_data[a]]_vars
    /\ [][(pc = "reset") =>
              \A q \in 1..Len(pixel_data) :
                  OnlyResetFields(pixel_data[q], pixel_data'[q])]_vars

\* C16 witness: the reset has moved a pixel off its seed values (delta_current
\* differs from delta_start, delta_reference from delta_centre) and left
\* delta_centre where packing put it.
C16_Witness ==
    /\ pc = "r_iterate"
    /\ \E q \in 1..Len(pixel_data) :
           /\ pixel_data[q].delta_current # pixel_data[q].delta_start
           /\ pixel_data[q].delta_reference # pixel_data[q].delta_centre
           /\ pixel_data[q].delta_centre =
                  PointDelta(Element(pixel_data[q].image_x, pixel_data[q].image_y,
                                     image_width, image_height, zoom.mantissa),
                             zoom.mantissa, image_height)

\* positions of render before series_approximation.run() has returned
BeforeApproximation == {"new", "render", "sa_run"}

\* the orbit was issued by the series approximation: it starts at the skipped
\* count and shares the iteration bound
IssuedBy(ref, sa) ==
    /\ ref.made
    /\ ref.start_iteration = sa.current_iteration
    /\ ref.maximum_iteration = sa.maximum_iteration

\* C17: series_approximation.run() is called once, before any evaluate or
\* get_reference (nothing is packed, chosen or issued before it), and the series
\* approximation never changes afterwards; every reference orbit is issued by
\* that series approximation through get_reference, has run() completed when it
\* is handed to Perturbation::iterate, and is handed to it exactly once.
C17_OneApproximationSingleUseReferences ==
    /\ [](pc \in BeforeApproximation =>
              /\ ~series_approximation.ran
              /\ ~reference.made /\ ~r.made
              /\ packed = <<>> /\ pixel_data = <<>> /\ delta_z = Zero)
    /\ [](pc \notin BeforeApproximation => series_approximation.ran)
    /\ [][(pc = "sa_run") => ~series_approximation.ran]_vars
    /\ [][(pc \notin {"render", "sa_run"}) =>
              series_approximation' = series_approximation]_vars
    /\ [](/\ reference.made => IssuedBy(reference, series_approximation)
          /\ r.made => IssuedBy(r, series_approximation)
          /\ reference.uses <= 1 /\ r.uses <= 1)
    /\ [](pc \in {"iterating", "export", "r_iterating", "r_export"} =>
              /\ IssuedBy(iterate_reference, series_approximation)
              /\ iterate_reference.ran
              /\ iterate_reference.uses = 1
              /\ iterate_reference =
                     (IF pc \in {"iterating", "export"} THEN reference ELSE r))
    /\ [](pc \notin BeforeCollect /\ pc # "iterate" => reference.uses = 1)
    /\ [][passes' # passes =>
              /\ passes' = passes + 1
              /\ iterate_reference'.ran
              /\ iterate_reference'.uses = 1]_vars

\* C17 witness: a repair pass iterates against an orbit issued for the sampled
\* pixel by a series approximation that skipped an iteration.
C17_Witness ==
    /\ pc = "r_iterating"
    /\ series_approximation.current_iteration >= 1
    /\ r.start_iteration = series_approximation.current_iteration
    /\ r.uses = 1
    /\ reference.uses = 1
    /\ r.delta # Zero

\* C18: in the parallel seeding and in the parallel repair reset a worker writes
\* the place of its own work item and no other, once (the item is pending before
\* and done after), and leaves the shared series approximation, reference,
\* delta_z and reference_wrt_sa as they were; so the outcome of each phase is the
\* closure applied to every item, whatever the interleaving: the seeds are
\* PackPixel of their index, the reset pixels are ResetPixel of what they were.
C18_WorkersWriteDisjointPixels ==
    /\ [][(pc = "packing" /\ pc' = pc) =>
              \E index \in pending :
                  /\ pending' = pending \ {index}
                  /\ index \notin DOMAIN packed
                  /\ DOMAIN packed' = DOMAIN packed \cup {index}
                  /\ \A k \in DOMAIN packed : packed'[k] = packed[k]
                  /\ packed'[index] =
                         PackPixel(index, image_width, image_height, zoom.mantissa, reference)
                  /\ series_approximation' = series_approximation
                  /\ reference' = reference]_vars
    /\ [][(pc = "reset" /\ pc' = pc) =>
              \E k \in pending :
                  /\ pending' = pending \ {k}
                  /\ Len(pixel_data') = Len(pixel_data)
                  /\ \A j \in 1..Len(pixel_data) :
                         j # k => pixel_data'[j] = pixel_data[j]
                  /\ pixel_data'[k] =
                         ResetPixel(pixel_data[k], reference, delta_z, reference_wrt_sa)
                  /\ series_approximation' = series_approximation
                  /\ reference' = reference
                  /\ delta_z' = delta_z
                  /\ reference_wrt_sa' = reference_wrt_sa]_vars
    /\ [](pc = "packing" =>
              /\ DOMAIN packed = (0..(image_width * image_height - 1)) \ pending
              /\ \A index \in DOMAIN packed :
                     packed[index] =
                         PackPixel(index, image_width, image_height, zoom.mantissa, reference))
    /\ [](pc = "iterate" =>
              pixel_data =
                  [k \in 1..(image_width * image_height) |->
                       PackPixel(k - 1, image_width, image_height, zoom.mantissa, reference)])
    /\ [](pc \in {"reset", "r_iterate"} =>
              \A q \in 1..Len(pixel_data) :
                  IF pc = "reset" /\ q \in pending
                  THEN pixel_data[q].glitched
                  ELSE pixel_data[q] =
                           ResetPixel(pixel_data[q], reference, delta_z,
                                      reference_wrt_sa))

\* C18 witness: in the reset of a pool of two pixels the worker of the second
\* pixel has written it while the first pixel is still untouched.
C18_Witness ==
    /\ pc = "reset"
    /\ Len(pixel_data) = 2
    /\ pending = {1}
    /\ pixel_data[1].glitched
    /\ ~pixel_data[2].glitched

\* positions of the repair loop body, from the choice to the retain
LoopBody ==
    {"choose", "evaluate", "r_get", "r_run", "reset", "r_iterate", "r_iterating",
     "r_export", "r_retain"}

\* C19: whenever the repair loop body has been entered the glitched pool holds
\* at least one pixel, for every W and H (the threshold 0.01 * glitch_tolerance
\* * W * H is never negative, and with W * H = 0 the loop is not entered), so
\* the choice is never made on an empty pool.
C19_ChoiceOnNonEmptyPool ==
    /\ image_width * image_height >= 0
    /\ pc \in LoopBody =>
           /\ Len(pixel_data) >= 1
           /\ image_width * image_height >= 1
    /\ pc = "choose" =>
           Len(pixel_data) * LoopFactorInv * GlitchToleranceInv
               > image_width * image_height

\* C19 witness: the choice is about to be made on a pool of a single pixel, in a
\* second repair pass.
C19_Witness ==
    /\ pc = "choose"
    /\ Len(pixel_data) = 1
    /\ data_export.exports = 2

\* a pass has called Perturbation::iterate and has not exported yet
PassNotExported == pc \in {"iterating", "export", "r_iterating", "r_export"}

\* C20: within one render export_pixels is called exactly once per pass (the
\* exports made equal the passes started, less the one in progress), only at the
\* two export calls; save is called exactly once, at the save position after
\* the loop has ended (the pool is at or below the threshold), and after it
\* nothing is exported.
C20_OneExportPerPassOneSave ==
    /\ [](data_export.exports = IF PassNotExported THEN passes - 1 ELSE passes)
    /\ [](saved <=> pc = "done")
    /\ [](pc \in {"save", "done"} =>
              /\ data_export.exports >= 1
              /\ Len(pixel_data) * LoopFactorInv * GlitchToleranceInv
                     <= image_width * image_height)
    /\ [][saved' # saved =>
              /\ pc = "save" /\ ~saved /\ saved'
              /\ data_export' = data_export]_vars
    /\ [][data_export' # data_export =>
              /\ pc \in {"new", "export", "r_export"}
              /\ ~saved
              /\ pc # "new" => data_export'.exports = data_export.exports + 1]_vars
    /\ [][saved => data_export' = data_export /\ saved']_vars

\* C20 witness: render has saved after a first pass and two repair passes, each
\* exported once.
C20_Witness ==
    /\ pc = "done"
    /\ saved
    /\ passes = 3
    /\ data_export.exports = 3

====
